---- MODULE Spec2Model ----
(***************************************************************************)
(* Model of the abi-cafe driver (src/main.rs): one (test, caller, callee)  *)
(* pairing going through do_test and run_dynamic_test, the three           *)
(* write-back callbacks working on the four WriteBuffers, and the          *)
(* reconciliation loop that produces the per-subtest results.              *)
(*                                                                         *)
(*   Spec         one pairing, from the manifest to its result             *)
(*   SpecRec      the reconciliation loop on bounded finalized buffers     *)
(*   SpecMain     main: the loops over TESTS x TEST_PAIRS and the summary  *)
(*   SpecSides    the callbacks of the caller and callee sides interleaved *)
(*   SpecProto    a side reporting its functions as the protocol says      *)
(*   SpecArgTy    arg_ty on pairs of bounded Vals                          *)
(*   SpecTwoRuns  the reconciliation loop on two runs that differ in one   *)
(*                function frame                                           *)
(*   SpecSources  do_test up to the compiles, with the files it touches    *)
(*   SpecSynth    the body of generate_procedural_tests on its table       *)
(***************************************************************************)
EXTENDS Integers, Sequences, FiniteSets, TLC

(* ------------------------------ bounds -------------------------------- *)
\* number of Funcs in a manifest
MaxFuncs == 2
\* number of callbacks the loaded test makes before test_start returns
MaxCalls == 4
\* total number of function frames, values and fields over the four drawn buffers
MaxWeight == 12
\* number of tests of TESTS that main runs
MaxTests == 2
\* number of nodes (constructors) of a Val given to arg_ty
MaxValNodes == 3

\* byte strings a field can hold (write_field copies `size` bytes)
FieldVals == {<<0>>, <<1>>}

(* ------------------------------ helpers ------------------------------- *)
Min(a, b) == IF a < b THEN a ELSE b

Last(s) == s[Len(s)]

SeqsUpTo(S, n) == UNION {[1..k -> S] : k \in 0..n}

(* --------------------------- the data model --------------------------- *)
\* the conventions a Func can list; the model only distinguishes
\* Handwritten from the others
CallingConvention == {"Handwritten", "C"}

\* a Func is modelled by the set of the conventions its `conventions` vector
\* lists (do_test only asks any/all of them), a Test by its funcs vector
Funcs == SUBSET CallingConvention

Tests == SeqsUpTo(Funcs, MaxFuncs)

Buffers == {"caller_inputs", "caller_outputs", "callee_inputs", "callee_outputs"}

\* WriteBuffer::new: funcs = vec![vec![vec![]]]
WriteBuffer_new == << << <<>> >> >>

\* a mutation of finish_tests: the first function is removed
finish_tests_First(funcs) == IF funcs = <<>> THEN funcs ELSE SubSeq(funcs, 2, Len(funcs))

\* WriteBuffer::finish_tests: self.funcs.pop() (the Option is ignored)
finish_tests(funcs) == IF funcs = <<>> THEN funcs ELSE SubSeq(funcs, 1, Len(funcs) - 1)

\* funcs.last_mut().unwrap() succeeds
HasPendingFunc(funcs) == Len(funcs) > 0

\* funcs.last_mut().unwrap().last_mut().unwrap() / .pop().unwrap() succeeds
HasPendingVal(funcs) == HasPendingFunc(funcs) /\ Len(Last(funcs)) > 0

\* a mutation of write_field: the bytes go in front of the pending value
write_field_Front(output, data) ==
    [output EXCEPT ![Len(output)] = [@ EXCEPT ![Len(@)] = <<data>> \o @]]

\* write_field: push the bytes onto the pending value of the pending function
write_field(output, data) ==
    [output EXCEPT ![Len(output)] = [@ EXCEPT ![Len(@)] = Append(@, data)]]

\* a mutation of finished_val: the new value goes in front of the pending function
finished_val_Front(output) ==
    [output EXCEPT ![Len(output)] = << <<>> >> \o @]

\* finished_val: push a new empty value onto the pending function
finished_val(output) ==
    [output EXCEPT ![Len(output)] = Append(@, <<>>)]

\* a mutation of PopPendingVal: the first value is removed
PopPendingVal_First(output) ==
    [output EXCEPT ![Len(output)] = SubSeq(@, 2, Len(@))]

\* finished_func, first half: funcs.last_mut().unwrap().pop().unwrap()
PopPendingVal(output) ==
    [output EXCEPT ![Len(output)] = SubSeq(@, 1, Len(@) - 1)]

PushPendingFunc_noval(output) == Append(output, <<>>)

\* finished_func, second half: funcs.push(vec![vec![]])
PushPendingFunc(output) == Append(output, << <<>> >>)


(* ------------------------------ the state ----------------------------- *)
VARIABLES
    pc,             \* the statement of do_test / run_dynamic_test to execute next
    steps,          \* the steps executed so far, in order
    test,           \* the Test read from the manifest (its funcs)
    is_handwritten, \* the local of do_test
    bufs,           \* the four WriteBuffers (their funcs)
    nfin,           \* per buffer, how often finished_func was applied to it
    ncalls,         \* callbacks made by the loaded test so far
    func_idx,       \* position of the 'funcs loop
    results,        \* the results vector of run_dynamic_test
    result          \* what do_test returned

\* the state of main: its loops over TESTS x TEST_PAIRS and its summary
VARIABLES
    main_pc,        \* the statement of main to execute next
    manifests,      \* per listed test, whether tests/<name>.ron can be opened
    test_i,         \* position of the loop over TESTS
    pair_i,         \* position of the loop over TEST_PAIRS
    reports,        \* the reports vector of main
    passes,         \* the counters of the summary
    fails,
    total_fails,
    exit_code       \* the exit code of the process, -1 while main runs

mainvars == <<main_pc, manifests, test_i, pair_i, reports, passes, fails, total_fails,
              exit_code>>

\* the callbacks each side of the loaded test has made so far, in its order
VARIABLES calls

\* the functions a side that follows the protocol reports: for each, the
\* values of its inputs and of its outputs, each value a list of fields
VARIABLES plan

\* two Vals and, once computed, their arg_ty names
VARIABLES val1, val2, names

\* the finalized buffers of another run of the same test, and the report
\* of the first of the two runs once it is over
VARIABLES other_bufs, first_result

\* the Test generate_procedural_tests built last, <<>> when it built none
VARIABLES procedural_test

\* the source files of a pairing
VARIABLES
    src_dir,        \* the root of the sources, "" until do_test chooses it
    created,        \* the directories and files the driver created or truncated
    generated,      \* the source files a backend has emitted
    compiled        \* the source files handed to compile_caller / compile_callee

fsvars == <<src_dir, created, generated, compiled>>

\* what a specification of one part of the program leaves alone
others == <<mainvars, calls, plan, val1, val2, names, other_bufs, first_result,
           procedural_test>>

aux == <<others, fsvars>>

vars == <<pc, steps, test, is_handwritten, bufs, nfin, ncalls, func_idx, results, result,
          aux>>

\* arg_ty is not under study
NoVals == val1 = <<>> /\ val2 = <<>> /\ names = <<>>

\* do_test has not touched any file
NoFiles == src_dir = "" /\ created = {} /\ generated = {} /\ compiled = <<>>

\* a single run is under study
OneRun == other_bufs = <<>> /\ first_result = <<>>

\* no test is being synthesized
NoSynthesis == procedural_test = <<>>

\* main has not started
MainIdle ==
    /\ main_pc = "idle"
    /\ manifests = <<>>
    /\ test_i = 0
    /\ pair_i = 0
    /\ reports = <<>>
    /\ passes = 0
    /\ fails = 0
    /\ total_fails = 0
    /\ exit_code = -1

AuxInit ==
    MainIdle /\ calls = <<>> /\ plan = <<>> /\ NoVals /\ OneRun /\ NoSynthesis /\ NoFiles

NoResult == [tag |-> "none"]

Err(e) == [tag |-> "Err", error |-> e]

\* BuildError variants without payload of interest
BuildError(kind) == [kind |-> kind]

\* BuildError::TestCountMismatch(expected, caller_in, caller_out, callee_in, callee_out)
TestCountMismatch(n, a, b, c, d) ==
    [kind |-> "TestCountMismatch", expected |-> n,
     caller_in |-> a, caller_out |-> b, callee_in |-> c, callee_out |-> d]

\* Ok(TestReport { test, results })
TestReport(t, r) == [tag |-> "Ok", test |-> t, results |-> r]

NoBuffers == [b \in Buffers |-> <<>>]

Init ==
    /\ pc = "read_test_manifest"
    /\ steps = <<>>
    /\ test = <<>>
    /\ is_handwritten = FALSE
    /\ bufs = NoBuffers
    /\ nfin = [b \in Buffers |-> 0]
    /\ ncalls = 0
    /\ func_idx = 0
    /\ results = <<>>
    /\ result = NoResult
    /\ AuxInit

\* `?` on an Err: do_test returns it, nothing else runs
Return(step, r) ==
    /\ pc' = "done"
    /\ steps' = Append(steps, step)
    /\ result' = r

Goto(step, next) ==
    /\ pc' = next
    /\ steps' = Append(steps, step)
    /\ result' = result

(* ------------------------------- do_test ------------------------------ *)
\* test.funcs.iter().any(|f| f.conventions.iter().any(|c| c is Handwritten))
IsHandwritten(t) ==
    \E i \in 1..Len(t) : \E c \in t[i] : c = "Handwritten"

\* every Func lists Handwritten, whatever else it lists
IsAllHandwritten_Present(t) ==
    \A i \in 1..Len(t) : \E c \in t[i] : c = "Handwritten"

\* test.funcs.iter().all(|f| f.conventions.iter().all(|c| c is Handwritten))
IsAllHandwritten(t) ==
    \A i \in 1..Len(t) : \A c \in t[i] : c = "Handwritten"

\* if is_handwritten && !is_all_handwritten { return Err(HandwrittenMixing) }
IsHandwrittenMixing(t) == IsHandwritten(t) /\ ~IsAllHandwritten(t)

\* let test = read_test_manifest(test_name)?;
\* File::open / read_to_string give Io, ron::from_str gives ParseError
ReadManifest ==
    /\ pc = "read_test_manifest"
    /\ \/ \E e \in {"Io", "ParseError"} :
              /\ Return("read_test_manifest", Err(BuildError(e)))
              /\ UNCHANGED test
       \/ \E t \in Tests :
              /\ test' = t
              /\ Goto("read_test_manifest", "handwritten_check")
    /\ UNCHANGED <<is_handwritten, bufs, nfin, ncalls, func_idx, results>>
    /\ UNCHANGED aux

\* a mutation of SrcDir: the sources are always the generated ones
SrcDir_Generated(handwritten) == "generated_impls"

\* let src_dir = if is_handwritten { "handwritten_impls/" } else { "generated_impls/" }
SrcDir(handwritten) == IF handwritten THEN "handwritten_impls" ELSE "generated_impls"

\* src_dir.join("{caller_name}/{test_name}_{caller_name}_caller.{caller_src_ext}")
caller_src == <<src_dir, "caller_name", "caller_src">>

\* src_dir.join("{callee_name}/{test_name}_{callee_name}_callee.{callee_src_ext}")
callee_src == <<src_dir, "callee_name", "callee_src">>

\* Path::parent
Parent(path) == SubSeq(path, 1, Len(path) - 1)

\* the handwritten check of do_test, and the choice of src_dir
HandwrittenCheck ==
    /\ pc = "handwritten_check"
    /\ is_handwritten' = IsHandwritten(test)
    /\ IF IsHandwrittenMixing(test)
       THEN /\ Return("handwritten_check", Err(BuildError("HandwrittenMixing")))
            /\ UNCHANGED src_dir
       ELSE /\ src_dir' = SrcDir(IsHandwritten(test))
            /\ Goto("handwritten_check",
                    IF IsHandwritten(test) THEN "compile_caller" ELSE "create_dir_all")
    /\ UNCHANGED <<test, bufs, nfin, ncalls, func_idx, results>>
    /\ UNCHANGED <<others, created, generated, compiled>>

\* a step of do_test that calls out and is followed by `?`: it fails with one
\* of `errors`, or succeeds and do_test goes on with `next`
ExternalStep(step, errors, next) ==
    /\ pc = step
    /\ \/ \E e \in errors : Return(step, Err(BuildError(e)))
       \/ Goto(step, next)
    /\ UNCHANGED <<test, is_handwritten, bufs, nfin, ncalls, func_idx, results>>
    /\ UNCHANGED others

\* a step whose error is not propagated: do_test records it and goes on
ExternalStep_NoReturn(step, errors, next) ==
    /\ pc = step
    /\ \/ \E e \in errors :
              /\ pc' = next
              /\ steps' = Append(steps, step)
              /\ result' = Err(BuildError(e))
       \/ Goto(step, next)
    /\ UNCHANGED <<test, is_handwritten, bufs, nfin, ncalls, func_idx, results>>
    /\ UNCHANGED others

\* std::fs::create_dir_all(caller_src.parent())?; create_dir_all(callee_src.parent())?;
\* the first create_dir_all fails, or the second does after the directory
\* of the caller source was made, or both directories exist
CreateDirs ==
    /\ ExternalStep("create_dir_all", {"Io"}, "generate_caller")
    /\ IF result'.tag = "Err"
       THEN created' \in {created, created \cup {Parent(caller_src)}}
       ELSE created' = created \cup {Parent(caller_src), Parent(callee_src)}
    /\ UNCHANGED <<src_dir, generated, compiled>>

\* File::create(&src)? then generate(&mut output, &test)?: File::create
\* fails with Io and leaves no file, or it creates or truncates the file and
\* the backend then fails or emits the source
GenerateFile(src) ==
    /\ IF result'.tag = "Err"
       THEN /\ \/ result'.error.kind = "Io" /\ created' = created
               \/ created' = created \cup {src}
            /\ generated' = generated
       ELSE /\ created' = created \cup {src}
            /\ generated' = generated \cup {src}
    /\ UNCHANGED <<src_dir, compiled>>

GenerateCaller_NoReturn ==
    /\ ExternalStep_NoReturn("generate_caller", {"Io", "Unsupported"}, "generate_callee")
    /\ GenerateFile(caller_src)

\* File::create(&caller_src)?; caller.generate_caller(&mut caller_output, &test)?;
GenerateCaller ==
    /\ ExternalStep("generate_caller", {"Io", "Unsupported"}, "generate_callee")
    /\ GenerateFile(caller_src)

\* File::create(&callee_src)?; callee.generate_callee(&mut callee_output, &test)?;
GenerateCallee ==
    /\ ExternalStep("generate_callee", {"Io", "Unsupported"}, "compile_caller")
    /\ GenerateFile(callee_src)

\* caller.compile_caller(&caller_src, &caller_lib)?
CompileCaller ==
    /\ ExternalStep("compile_caller", {"Io", "RustCompile", "CCompile"}, "compile_callee")
    /\ compiled' = Append(compiled, caller_src)
    /\ UNCHANGED <<src_dir, created, generated>>

\* callee.compile_callee(&callee_src, &callee_lib)?
CompileCallee ==
    /\ ExternalStep("compile_callee", {"Io", "RustCompile", "CCompile"}, "build_harness")
    /\ compiled' = Append(compiled, callee_src)
    /\ UNCHANGED <<src_dir, created, generated>>

\* build_harness(..)?: Command::output gives Io, a failing rustc gives RustCompile
BuildHarness ==
    /\ ExternalStep("build_harness", {"Io", "RustCompile"}, "load")
    /\ UNCHANGED fsvars

(* --------------------------- the TestFailures ------------------------- *)
InputFieldMismatch(i, j, k, a, b) ==
    [kind |-> "InputFieldMismatch", func_idx |-> i, val_idx |-> j, field_idx |-> k,
     caller |-> a, callee |-> b]

OutputFieldMismatch(i, j, k, a, b) ==
    [kind |-> "OutputFieldMismatch", func_idx |-> i, val_idx |-> j, field_idx |-> k,
     caller |-> a, callee |-> b]

InputFieldCountMismatch(i, j, a, b) ==
    [kind |-> "InputFieldCountMismatch", func_idx |-> i, val_idx |-> j,
     caller |-> a, callee |-> b]

OutputFieldCountMismatch(i, j, a, b) ==
    [kind |-> "OutputFieldCountMismatch", func_idx |-> i, val_idx |-> j,
     caller |-> a, callee |-> b]

InputCountMismatch(i, a, b) ==
    [kind |-> "InputCountMismatch", func_idx |-> i, caller |-> a, callee |-> b]

OutputCountMismatch(i, a, b) ==
    [kind |-> "OutputCountMismatch", func_idx |-> i, caller |-> a, callee |-> b]

\* Ok(())
Passed == [kind |-> "Ok"]

\* a loop ran to its end without `continue 'funcs`
NoFailure == [kind |-> "none"]

(* ------------------------ the reconciliation loop --------------------- *)
\* the two sides' bytes reported in each other's place
RECURSIVE CheckInputFields_Swapped(_, _, _, _, _)
CheckInputFields_Swapped(i, j, caller_val, callee_val, k) ==
    IF k >= Min(Len(caller_val), Len(callee_val))
    THEN NoFailure
    ELSE IF caller_val[k + 1] # callee_val[k + 1]
         THEN InputFieldMismatch(i, j, k, callee_val[k + 1], caller_val[k + 1])
         ELSE CheckInputFields_Swapped(i, j, caller_val, callee_val, k + 1)

\* Layer 3 of the input loop: for (field_idx, (caller_field, callee_field)) in
\* caller_val.into_iter().zip(callee_val).enumerate(); k is the 0-based field_idx
RECURSIVE CheckInputFields(_, _, _, _, _)
CheckInputFields(i, j, caller_val, callee_val, k) ==
    IF k >= Min(Len(caller_val), Len(callee_val))
    THEN NoFailure
    ELSE IF caller_val[k + 1] # callee_val[k + 1]
         THEN InputFieldMismatch(i, j, k, caller_val[k + 1], callee_val[k + 1])
         ELSE CheckInputFields(i, j, caller_val, callee_val, k + 1)

\* the input loop without its field count check: zip compares the common fields
RECURSIVE CheckInputs_NoFieldCount(_, _, _, _)
CheckInputs_NoFieldCount(i, caller_inputs, callee_inputs, j) ==
    IF j >= Min(Len(caller_inputs), Len(callee_inputs))
    THEN NoFailure
    ELSE LET f == CheckInputFields(i, j, caller_inputs[j + 1], callee_inputs[j + 1], 0)
         IN IF f.kind # "none"
            THEN f
            ELSE CheckInputs_NoFieldCount(i, caller_inputs, callee_inputs, j + 1)

\* Layer 2, "Process Inputs": for (input_idx, (caller_val, callee_val)) in
\* caller_inputs.into_iter().zip(callee_inputs).enumerate(); j is the 0-based input_idx
RECURSIVE CheckInputs(_, _, _, _)
CheckInputs(i, caller_inputs, callee_inputs, j) ==
    IF j >= Min(Len(caller_inputs), Len(callee_inputs))
    THEN NoFailure
    ELSE IF Len(caller_inputs[j + 1]) # Len(callee_inputs[j + 1])
         THEN InputFieldCountMismatch(i, j, caller_inputs[j + 1], callee_inputs[j + 1])
         ELSE LET f == CheckInputFields(i, j, caller_inputs[j + 1], callee_inputs[j + 1], 0)
              IN IF f.kind # "none"
                 THEN f
                 ELSE CheckInputs(i, caller_inputs, callee_inputs, j + 1)

\* Layer 3 of the output loop
RECURSIVE CheckOutputFields(_, _, _, _, _)
CheckOutputFields(i, j, caller_val, callee_val, k) ==
    IF k >= Min(Len(caller_val), Len(callee_val))
    THEN NoFailure
    ELSE IF caller_val[k + 1] # callee_val[k + 1]
         THEN OutputFieldMismatch(i, j, k, caller_val[k + 1], callee_val[k + 1])
         ELSE CheckOutputFields(i, j, caller_val, callee_val, k + 1)

\* the output loop without its field count check
RECURSIVE CheckOutputs_NoFieldCount(_, _, _, _)
CheckOutputs_NoFieldCount(i, caller_outputs, callee_outputs, j) ==
    IF j >= Min(Len(caller_outputs), Len(callee_outputs))
    THEN NoFailure
    ELSE LET f == CheckOutputFields(i, j, caller_outputs[j + 1], callee_outputs[j + 1], 0)
         IN IF f.kind # "none"
            THEN f
            ELSE CheckOutputs_NoFieldCount(i, caller_outputs, callee_outputs, j + 1)

\* Layer 2, "Process Outputs"
RECURSIVE CheckOutputs(_, _, _, _)
CheckOutputs(i, caller_outputs, callee_outputs, j) ==
    IF j >= Min(Len(caller_outputs), Len(callee_outputs))
    THEN NoFailure
    ELSE IF Len(caller_outputs[j + 1]) # Len(callee_outputs[j + 1])
         THEN OutputFieldCountMismatch(i, j, caller_outputs[j + 1], callee_outputs[j + 1])
         ELSE LET f == CheckOutputFields(i, j, caller_outputs[j + 1], callee_outputs[j + 1], 0)
              IN IF f.kind # "none"
                 THEN f
                 ELSE CheckOutputs(i, caller_outputs, callee_outputs, j + 1)

\* the output count compared only after the input loop
FuncVerdict_InputsFirst(i, caller_inputs, caller_outputs, callee_inputs, callee_outputs) ==
    IF Len(caller_inputs) # Len(callee_inputs)
    THEN InputCountMismatch(i, caller_inputs, callee_inputs)
    ELSE LET fin == CheckInputs(i, caller_inputs, callee_inputs, 0)
         IN IF fin.kind # "none"
            THEN fin
            ELSE IF Len(caller_outputs) # Len(callee_outputs)
            THEN OutputCountMismatch(i, caller_outputs, callee_outputs)
            ELSE LET fout == CheckOutputs(i, caller_outputs, callee_outputs, 0)
                 IN IF fout.kind # "none" THEN fout ELSE Passed

\* one iteration of 'funcs: what is pushed onto results for function frame i
FuncVerdict(i, caller_inputs, caller_outputs, callee_inputs, callee_outputs) ==
    IF Len(caller_inputs) # Len(callee_inputs)
    THEN InputCountMismatch(i, caller_inputs, callee_inputs)
    ELSE IF Len(caller_outputs) # Len(callee_outputs)
    THEN OutputCountMismatch(i, caller_outputs, callee_outputs)
    ELSE LET fin == CheckInputs(i, caller_inputs, callee_inputs, 0)
         IN IF fin.kind # "none"
            THEN fin
            ELSE LET fout == CheckOutputs(i, caller_outputs, callee_outputs, 0)
                 IN IF fout.kind # "none" THEN fout ELSE Passed

(* --------------------------- run_dynamic_test ------------------------- *)
\* the four WriteBuffer::new(), then Library::new(dylib)? and lib.get(b"test_start")?
Load ==
    /\ pc = "load"
    /\ bufs' = [b \in Buffers |-> WriteBuffer_new]
    /\ \/ Return("load", Err(BuildError("LoadError")))
       \/ Goto("load", "test_start")
    /\ UNCHANGED <<test, is_handwritten, nfin, ncalls, func_idx, results>>
    /\ UNCHANGED aux

\* an unwrap() of None inside a callback: the process dies in the callback
Panic ==
    /\ pc' = "panic"
    /\ UNCHANGED <<steps, test, is_handwritten, bufs, nfin, ncalls, func_idx, results, result>>

\* the loaded test calls write_field(output, input, size)
WriteField(output, data) ==
    /\ pc = "test_start"
    /\ ncalls < MaxCalls
    /\ IF HasPendingVal(bufs[output])
       THEN /\ bufs' = [bufs EXCEPT ![output] = write_field(@, data)]
            /\ ncalls' = ncalls + 1
            /\ UNCHANGED <<pc, steps, test, is_handwritten, nfin, func_idx, results, result>>
       ELSE Panic
    /\ UNCHANGED aux

\* the loaded test calls finished_val(output)
FinishedVal(output) ==
    /\ pc = "test_start"
    /\ ncalls < MaxCalls
    /\ IF HasPendingFunc(bufs[output])
       THEN /\ bufs' = [bufs EXCEPT ![output] = finished_val(@)]
            /\ ncalls' = ncalls + 1
            /\ UNCHANGED <<pc, steps, test, is_handwritten, nfin, func_idx, results, result>>
       ELSE Panic
    /\ UNCHANGED aux

\* a mutation of finished_func: every buffer gets the new pending function
finished_func_AllBuffers(b, output1, output2) ==
    LET p1 == [b EXCEPT ![output1] = PopPendingVal(@)]
        p2 == [p1 EXCEPT ![output2] = PopPendingVal(@)]
    IN  [x \in Buffers |-> PushPendingFunc(p2[x])]

\* finished_func on the buffers b: both pending values are popped, then both
\* pending functions are pushed
finished_func(b, output1, output2) ==
    LET p1 == [b EXCEPT ![output1] = PopPendingVal(@)]
        p2 == [p1 EXCEPT ![output2] = PopPendingVal(@)]
        q1 == [p2 EXCEPT ![output1] = PushPendingFunc(@)]
    IN  [q1 EXCEPT ![output2] = PushPendingFunc(@)]

\* the loaded test calls finished_func(output1, output2); the two are distinct
\* buffers (two &mut to one WriteBuffer cannot be passed)
FinishedFunc(output1, output2) ==
    /\ pc = "test_start"
    /\ ncalls < MaxCalls
    /\ output1 # output2
    /\ IF HasPendingVal(bufs[output1]) /\ HasPendingVal(bufs[output2])
       THEN /\ bufs' = finished_func(bufs, output1, output2)
            /\ nfin' = [nfin EXCEPT ![output1] = @ + 1, ![output2] = @ + 1]
            /\ ncalls' = ncalls + 1
            /\ UNCHANGED <<pc, steps, test, is_handwritten, func_idx, results, result>>
       ELSE Panic
    /\ UNCHANGED aux

\* test_start returns to run_dynamic_test
TestStartReturns ==
    /\ pc = "test_start"
    /\ Goto("test_start", "finish_tests")
    /\ UNCHANGED <<test, is_handwritten, bufs, nfin, ncalls, func_idx, results>>
    /\ UNCHANGED aux

FinishAll_NoPop == bufs

\* the four finish_tests() calls
FinishAll == [b \in Buffers |-> finish_tests(bufs[b])]

Finalize ==
    /\ pc = "finish_tests"
    /\ bufs' = FinishAll
    /\ Goto("finish_tests", "count_check")
    /\ UNCHANGED <<test, is_handwritten, nfin, ncalls, func_idx, results>>
    /\ UNCHANGED aux

CountsDiffer_All(n, b) ==
    /\ Len(b["caller_inputs"]) # n
    /\ Len(b["caller_outputs"]) # n
    /\ Len(b["callee_inputs"]) # n
    /\ Len(b["callee_outputs"]) # n

\* the condition of the sanity check on the four function counts
CountsDiffer(n, b) ==
    \/ Len(b["caller_inputs"]) # n
    \/ Len(b["caller_outputs"]) # n
    \/ Len(b["callee_inputs"]) # n
    \/ Len(b["callee_outputs"]) # n

\* let expected_test_count = test.funcs.len(); if .. { return Err(TestCountMismatch(..)) }
CountCheck ==
    /\ pc = "count_check"
    /\ LET expected_test_count == Len(test)
       IN IF CountsDiffer(expected_test_count, bufs)
          THEN Return("count_check",
                      Err(TestCountMismatch(expected_test_count,
                                            Len(bufs["caller_inputs"]),
                                            Len(bufs["caller_outputs"]),
                                            Len(bufs["callee_inputs"]),
                                            Len(bufs["callee_outputs"]))))
          ELSE Goto("count_check", "reconcile")
    /\ UNCHANGED <<test, is_handwritten, bufs, nfin, ncalls, func_idx, results>>
    /\ UNCHANGED aux

\* the zip of the four into_iter()s ends with the shortest of them
ZipLen(b) ==
    Min(Min(Len(b["caller_inputs"]), Len(b["caller_outputs"])),
        Min(Len(b["callee_inputs"]), Len(b["callee_outputs"])))

\* a mutation of FrameVerdict: a failure is repeated for the next frame
FrameVerdict_Cascade(i) ==
    IF results # <<>> /\ Last(results).kind # "Ok"
    THEN Last(results)
    ELSE FuncVerdict(i, bufs["caller_inputs"][i + 1], bufs["caller_outputs"][i + 1],
                        bufs["callee_inputs"][i + 1], bufs["callee_outputs"][i + 1])

\* the verdict of the function frame with 0-based index i
FrameVerdict(i) ==
    FuncVerdict(i, bufs["caller_inputs"][i + 1], bufs["caller_outputs"][i + 1],
                   bufs["callee_inputs"][i + 1], bufs["callee_outputs"][i + 1])

\* a failure ends the loop (break) instead of going on with the next frame
ReconcileFunc_Break ==
    /\ pc = "reconcile"
    /\ func_idx < ZipLen(bufs)
    /\ results' = Append(results, FrameVerdict(func_idx))
    /\ func_idx' = IF FrameVerdict(func_idx).kind = "Ok" THEN func_idx + 1 ELSE ZipLen(bufs)
    /\ UNCHANGED <<pc, steps, test, is_handwritten, bufs, nfin, ncalls, result>>
    /\ UNCHANGED aux

\* one iteration of the 'funcs loop: exactly one push onto results
ReconcileFunc ==
    /\ pc = "reconcile"
    /\ func_idx < ZipLen(bufs)
    /\ results' = Append(results, FrameVerdict(func_idx))
    /\ func_idx' = func_idx + 1
    /\ UNCHANGED <<pc, steps, test, is_handwritten, bufs, nfin, ncalls, result>>
    /\ UNCHANGED aux

\* the loop is over: Ok(TestReport { test, results })
Report ==
    /\ pc = "reconcile"
    /\ func_idx >= ZipLen(bufs)
    /\ Return("reconcile", TestReport(test, results))
    /\ UNCHANGED <<test, is_handwritten, bufs, nfin, ncalls, func_idx, results>>
    /\ UNCHANGED aux

(* --------------------------- specifications --------------------------- *)
Callback ==
    \/ \E output \in Buffers, data \in FieldVals : WriteField(output, data)
    \/ \E output \in Buffers : FinishedVal(output)
    \/ \E output1, output2 \in Buffers : FinishedFunc(output1, output2)

Next ==
    \/ ReadManifest
    \/ HandwrittenCheck
    \/ CreateDirs
    \/ GenerateCaller
    \/ GenerateCallee
    \/ CompileCaller
    \/ CompileCallee
    \/ BuildHarness
    \/ Load
    \/ Callback
    \/ TestStartReturns
    \/ Finalize
    \/ CountCheck
    \/ ReconcileFunc
    \/ Report

\* one pairing, from do_test's first statement to its return
Spec == Init /\ [][Next]_vars

(* ------------- reconciliation of arbitrary finalized buffers ----------- *)
\* the values that weigh w: one for the value plus one per field
ValuesOfWeight(w) == IF w < 1 THEN {} ELSE [1..(w - 1) -> FieldVals]

\* the function frames (value lists) whose values weigh w together
RECURSIVE FramesOfWeight(_)
FramesOfWeight(w) ==
    IF w = 0
    THEN {<<>>}
    ELSE UNION {{<<v>> \o f : v \in ValuesOfWeight(a), f \in FramesOfWeight(w - a)} :
                a \in 1..w}

\* four finalized buffers of n function frames each, cut from a list of 4n frames
BuffersOf(n, s) ==
    [b \in Buffers |->
        CASE b = "caller_inputs"  -> SubSeq(s, 1, n)
          [] b = "caller_outputs" -> SubSeq(s, n + 1, 2 * n)
          [] b = "callee_inputs"  -> SubSeq(s, 2 * n + 1, 3 * n)
          [] b = "callee_outputs" -> SubSeq(s, 3 * n + 1, 4 * n)]

\* the function frames whose values and fields weigh at most w, for every w
\* that four function frames leave of the bound
FramesUpTo == [w \in 0..(MaxWeight - 4) |-> UNION {FramesOfWeight(a) : a \in 0..w}]

RECURSIVE FieldCount(_, _)
FieldCount(f, j) == IF j > Len(f) THEN 0 ELSE Len(f[j]) + FieldCount(f, j + 1)

\* the weight of a function frame: itself, its values and their fields
Weight(f) == 1 + Len(f) + FieldCount(f, 1)

\* bufs is any four buffers of n function frames each that weigh at most
\* MaxWeight together: the k frames still to draw, already counted, share the
\* weight w left for their values and fields
RECURSIVE DrawBuffers(_, _, _, _)
DrawBuffers(n, k, w, drawn) ==
    IF k = 0
    THEN bufs = BuffersOf(n, drawn)
    ELSE \E f \in FramesUpTo[w] :
            DrawBuffers(n, k - 1, w + 1 - Weight(f), Append(drawn, f))

\* the steps of a generated pairing up to the passed count check
StepsToReconcile ==
    <<"read_test_manifest", "handwritten_check", "create_dir_all", "generate_caller",
      "generate_callee", "compile_caller", "compile_callee", "build_harness", "load",
      "test_start", "finish_tests", "count_check">>

\* run_dynamic_test right after the count check passed: any four buffers with
\* |test.funcs| function frames each can stand there (every nested list is the
\* outcome of some callback sequence); ncalls is spent
InitRec ==
    /\ pc = "reconcile"
    /\ steps = StepsToReconcile
    /\ \E n \in 0..MaxFuncs :
          /\ 4 * n <= MaxWeight
          /\ test = [i \in 1..n |-> {"C"}]
          /\ DrawBuffers(n, 4 * n, MaxWeight - 4 * n, <<>>)
          /\ nfin = [b \in Buffers |-> n]
    /\ is_handwritten = FALSE
    /\ ncalls = MaxCalls
    /\ func_idx = 0
    /\ results = <<>>
    /\ result = NoResult
    /\ AuxInit

NextRec == ReconcileFunc \/ Report

\* the reconciliation loop of run_dynamic_test over bounded finalized buffers
SpecRec == InitRec /\ [][NextRec]_vars

(* -------------------------------- arg_ty ------------------------------- *)
\* the variants of IntVal and FloatVal
IntVal ==
    {"c__int128", "c_int64_t", "c_int32_t", "c_int16_t", "c_int8_t",
     "c__uint128", "c_uint64_t", "c_uint32_t", "c_uint16_t", "c_uint8_t"}

FloatVal == {"c_double", "c_float"}

\* a Val without its literals: what arg_ty looks at, and more (the fields
\* of a struct, the elements of an array after the first)
Ref(x) == [con |-> "Ref", ty |-> "", name |-> "", vals |-> <<x>>]

Ptr == [con |-> "Ptr", ty |-> "", name |-> "", vals |-> <<>>]

Bool == [con |-> "Bool", ty |-> "", name |-> "", vals |-> <<>>]

Array(vals) == [con |-> "Array", ty |-> "", name |-> "", vals |-> vals]

Struct(name, fields) == [con |-> "Struct", ty |-> "", name |-> name, vals |-> fields]

Float(ty) == [con |-> "Float", ty |-> ty, name |-> "", vals |-> <<>>]

IntOf(ty) == [con |-> "Int", ty |-> ty, name |-> "", vals |-> <<>>]

\* the name arg_ty gives to an IntVal
IntName(ty) ==
    CASE ty = "c__int128" -> "i128"
      [] ty = "c_int64_t" -> "i64"
      [] ty = "c_int32_t" -> "i32"
      [] ty = "c_int16_t" -> "i16"
      [] ty = "c_int8_t" -> "i8"
      [] ty = "c__uint128" -> "u128"
      [] ty = "c_uint64_t" -> "u64"
      [] ty = "c_uint32_t" -> "u32"
      [] ty = "c_uint16_t" -> "u16"
      [] ty = "c_uint8_t" -> "u8"

RECURSIVE arg_ty(_)

\* a mutation of arg_ty: the name of an array leaves out its length
arg_ty_NoLen(val) ==
    CASE val.con = "Ref" -> "ref_" \o arg_ty(val.vals[1])
      [] val.con = "Ptr" -> "ptr"
      [] val.con = "Bool" -> "bool"
      [] val.con = "Array" -> "arr_" \o arg_ty(val.vals[1])
      [] val.con = "Struct" -> "struct_" \o val.name
      [] val.con = "Float" -> (IF val.ty = "c_double" THEN "f64" ELSE "f32")
      [] val.con = "Int" -> IntName(val.ty)

\* arg_ty: the type name of a Val, a string built by format!
arg_ty(val) ==
    CASE val.con = "Ref" -> "ref_" \o arg_ty(val.vals[1])
      [] val.con = "Ptr" -> "ptr"
      [] val.con = "Bool" -> "bool"
      [] val.con = "Array" ->
            "arr_" \o ToString(Len(val.vals)) \o "_" \o arg_ty(val.vals[1])
      [] val.con = "Struct" -> "struct_" \o val.name
      [] val.con = "Float" -> (IF val.ty = "c_double" THEN "f64" ELSE "f32")
      [] val.con = "Int" -> IntName(val.ty)

(* ----------------------- generate_procedural_tests --------------------- *)
\* a mutation of RegenerationDisabled: regeneration is enabled
RegenerationEnabled == FALSE

\* the condition of the early return of generate_procedural_tests: if true
RegenerationDisabled == TRUE

\* the table of (test_name, vals) of generate_procedural_tests
tests ==
    <<[name |-> "i64", vals |-> <<IntOf("c_int64_t")>>],
      [name |-> "i32", vals |-> <<IntOf("c_int32_t")>>],
      [name |-> "i16", vals |-> <<IntOf("c_int16_t")>>],
      [name |-> "i8", vals |-> <<IntOf("c_int8_t")>>],
      [name |-> "u64", vals |-> <<IntOf("c_uint64_t")>>],
      [name |-> "u32", vals |-> <<IntOf("c_uint32_t")>>],
      [name |-> "u16", vals |-> <<IntOf("c_uint16_t")>>],
      [name |-> "u8", vals |-> <<IntOf("c_uint8_t")>>],
      [name |-> "ptr", vals |-> <<Ptr>>],
      [name |-> "bool", vals |-> <<Bool>>],
      [name |-> "f64", vals |-> <<Float("c_double")>>],
      [name |-> "f32", vals |-> <<Float("c_float")>>],
      [name |-> "ui128", vals |-> <<IntOf("c__int128"), IntOf("c__uint128")>>]>>

\* the names of the tests of the table
ProceduralNames == {tests[i].name : i \in 1..Len(tests)}

\* Test { name, funcs }
Test(name, funcs) == [name |-> name, funcs |-> funcs]

\* Option<Val>
None == <<>>

Some(val) == <<val>>

\* Func { name, conventions: vec![CallingConvention::All], inputs, output }
Func(name, inputs, output) ==
    [name |-> name, conventions |-> {"All"}, inputs |-> inputs, output |-> output]

\* the closure new_val: val.clone()
new_val(val) == val

\* (0..len).map(|_| new_val()).collect()
Copies(val, len) == [i \in 1..len |-> new_val(val)]

small_count == 4

big_count == 16

\* a Vec, or the panic of an operation on it
Vec(s) == [panicked |-> FALSE, vec |-> s]

\* Vec::insert: panics if index > len, otherwise shifts the elements from
\* index on to the right
insert(v, index, element) ==
    IF v.panicked \/ index > Len(v.vec)
    THEN [panicked |-> TRUE, vec |-> <<>>]
    ELSE Vec(SubSeq(v.vec, 1, index) \o <<element>> \o SubSeq(v.vec, index + 1, Len(v.vec)))

\* the perturbed argument list: count copies of the value, then a byte
\* inserted at idx, then a float inserted at count + 1 - idx
Perturbed(val, count, idx) ==
    insert(insert(Vec(Copies(val, count)), idx, IntOf("c_uint8_t")),
           count + 1 - idx, Float("c_float"))

\* format!("{val_name}_{len}")
StructName(val_name, len) == val_name \o "_" \o ToString(len)

\* a mutation of PerturbedStructName: the name leaves out the index
PerturbedStructName_NoIdx(val_name, idx, size) == val_name \o "_perturbed_" \o size

\* format!("{val_name}_{idx}_perturbed_small") and ..._perturbed_big
PerturbedStructName(val_name, idx, size) ==
    val_name \o "_" \o ToString(idx) \o "_perturbed_" \o size

\* the inputs of a Func that takes the values as they are, in a struct, or
\* in a struct behind a Ref
Inputs(form, struct_name, fields) ==
    CASE form = "val" -> fields
      [] form = "struct" -> <<Struct(struct_name, fields)>>
      [] form = "ref_struct" -> <<Ref(Struct(struct_name, fields))>>

\* the six Funcs with one value in and/or out, by value and by reference
ValFuncs(val) ==
    LET val_name == arg_ty(val) IN
    <<Func(val_name \o "_val_in", <<new_val(val)>>, None),
      Func(val_name \o "_val_out", <<>>, Some(new_val(val))),
      Func(val_name \o "_val_in_out", <<new_val(val)>>, Some(new_val(val))),
      Func(val_name \o "_ref_in", <<Ref(new_val(val))>>, None),
      Func(val_name \o "_ref_out", <<>>, Some(Ref(new_val(val)))),
      Func(val_name \o "_ref_in_out", <<Ref(new_val(val))>>, Some(Ref(new_val(val))))>>

\* for len in 2..=16: len values in
ValInFuncs(val) ==
    [i \in 1..15 |->
        Func(arg_ty(val) \o "_val_in_" \o ToString(i + 1), Copies(val, i + 1), None)]

\* for len in 1..=16: a struct of len values in, by value or behind a Ref
StructInFuncs(val, form) ==
    [len \in 1..16 |->
        Func(arg_ty(val) \o "_" \o form \o "_in_" \o ToString(len),
             Inputs(form, StructName(arg_ty(val), len), Copies(val, len)), None)]

\* for idx in 0..=count: the perturbed argument list in, in one of the three
\* forms; the loop panics when an insert does
PerturbedFuncs(val, form, count, size) ==
    [panicked |-> \E idx \in 0..count : Perturbed(val, count, idx).panicked,
     funcs |->
        [i \in 1..(count + 1) |->
            Func(arg_ty(val) \o "_" \o form \o "_in_" \o ToString(i - 1)
                    \o "_perturbed_" \o size,
                 Inputs(form, PerturbedStructName(arg_ty(val), i - 1, size),
                        Perturbed(val, count, i - 1).vec),
                 None)]]

\* the groups of pushes of the loop over vals, in the order of the code
StageOrder ==
    <<"val", "val_in", "struct_in", "ref_struct_in",
      "val_in_perturbed_small", "val_in_perturbed_big",
      "struct_in_perturbed_small", "struct_in_perturbed_big",
      "ref_struct_in_perturbed_small", "ref_struct_in_perturbed_big">>

\* the Funcs one group pushes for a value, or its panic
Stage(at, val) ==
    CASE at = "val" -> [panicked |-> FALSE, funcs |-> ValFuncs(val)]
      [] at = "val_in" -> [panicked |-> FALSE, funcs |-> ValInFuncs(val)]
      [] at = "struct_in" -> [panicked |-> FALSE, funcs |-> StructInFuncs(val, "struct")]
      [] at = "ref_struct_in" ->
            [panicked |-> FALSE, funcs |-> StructInFuncs(val, "ref_struct")]
      [] at = "val_in_perturbed_small" -> PerturbedFuncs(val, "val", small_count, "small")
      [] at = "val_in_perturbed_big" -> PerturbedFuncs(val, "val", big_count, "big")
      [] at = "struct_in_perturbed_small" ->
            PerturbedFuncs(val, "struct", small_count, "small")
      [] at = "struct_in_perturbed_big" -> PerturbedFuncs(val, "struct", big_count, "big")
      [] at = "ref_struct_in_perturbed_small" ->
            PerturbedFuncs(val, "ref_struct", small_count, "small")
      [] at = "ref_struct_in_perturbed_big" ->
            PerturbedFuncs(val, "ref_struct", big_count, "big")

\* the groups from the k-th on for one value, all vals from the j-th on
RECURSIVE StagesFrom(_, _)
StagesFrom(k, val) ==
    IF k > Len(StageOrder) THEN [panicked |-> FALSE, funcs |-> <<>>]
    ELSE LET stage == Stage(StageOrder[k], val)
             rest == StagesFrom(k + 1, val)
         IN  [panicked |-> stage.panicked \/ rest.panicked,
              funcs |-> stage.funcs \o rest.funcs]

\* the body of the loop over the table for one entry: the Test built, or
\* the panic of an insert
RECURSIVE BuildFuncs(_, _)
BuildFuncs(vals, j) ==
    IF j > Len(vals) THEN [panicked |-> FALSE, funcs |-> <<>>]
    ELSE LET first == StagesFrom(1, vals[j])
             rest == BuildFuncs(vals, j + 1)
         IN  [panicked |-> first.panicked \/ rest.panicked,
              funcs |-> first.funcs \o rest.funcs]

\* format!("tests/{test_name}.ron")
TestFile(test_name) == <<"tests", test_name>>

\* where generate_procedural_tests stands past its early return: the entry
\* of the table, the value of the entry and the group of pushes to do next
Position(test_idx, val_idx, at) == [test_idx |-> test_idx, val_idx |-> val_idx, at |-> at]

StageIndex(at) == CHOOSE k \in 1..Len(StageOrder) : StageOrder[k] = at

\* the position after the group of pushes at p
AfterStage(p) ==
    IF StageIndex(p.at) < Len(StageOrder)
    THEN [p EXCEPT !.at = StageOrder[StageIndex(p.at) + 1]]
    ELSE IF p.val_idx < Len(tests[p.test_idx].vals)
         THEN [p EXCEPT !.val_idx = @ + 1, !.at = StageOrder[1]]
         ELSE [p EXCEPT !.at = "write"]

\* generate_procedural_tests past its early return, at the first entry of
\* the table; the manifests of the table are all checked in, or none is
InitSynth ==
    /\ main_pc = "generate_procedural_tests"
    /\ pc = Position(1, 1, StageOrder[1])
    /\ procedural_test = Test(tests[1].name, <<>>)
    /\ \E exists \in BOOLEAN : manifests = [name \in ProceduralNames |-> exists]
    /\ test_i = 0
    /\ pair_i = 0
    /\ reports = <<>>
    /\ passes = 0
    /\ fails = 0
    /\ total_fails = 0
    /\ exit_code = -1
    /\ steps = <<>>
    /\ test = <<>>
    /\ is_handwritten = FALSE
    /\ bufs = NoBuffers
    /\ nfin = [b \in Buffers |-> 0]
    /\ ncalls = 0
    /\ func_idx = 0
    /\ results = <<>>
    /\ result = NoResult
    /\ calls = <<>>
    /\ plan = <<>>
    /\ NoVals
    /\ OneRun
    /\ NoFiles

\* what the synthesizer leaves alone
SynthFrame ==
    UNCHANGED <<steps, test, is_handwritten, bufs, nfin, ncalls, func_idx, results,
                result, main_pc, test_i, pair_i, reports, passes, fails, total_fails,
                exit_code, calls, plan, val1, val2, names, other_bufs, first_result,
                src_dir, generated, compiled>>

\* one group of test.funcs.push for the current value
PushFuncs ==
    /\ main_pc = "generate_procedural_tests"
    /\ pc.at \in {StageOrder[k] : k \in 1..Len(StageOrder)}
    /\ LET stage == Stage(pc.at, tests[pc.test_idx].vals[pc.val_idx]) IN
          IF stage.panicked
          THEN /\ pc' = [pc EXCEPT !.at = "insert_panic"]
               /\ UNCHANGED procedural_test
          ELSE /\ pc' = AfterStage(pc)
               /\ procedural_test' = [procedural_test EXCEPT !.funcs = @ \o stage.funcs]
    /\ UNCHANGED <<manifests, created>>
    /\ SynthFrame

\* File::create(tests/<test_name>.ron) and write_all of the serialized
\* Test, then the next entry of the table; unwrap panics when the file
\* cannot be created or written
WriteManifest ==
    /\ main_pc = "generate_procedural_tests"
    /\ pc.at = "write"
    /\ \/ /\ pc' = [pc EXCEPT !.at = "unwrap_panic"]
          /\ UNCHANGED <<manifests, created, procedural_test>>
       \/ /\ created' = created \cup {TestFile(procedural_test.name)}
          /\ manifests' = [manifests EXCEPT ![procedural_test.name] = TRUE]
          /\ IF pc.test_idx < Len(tests)
             THEN /\ pc' = Position(pc.test_idx + 1, 1, StageOrder[1])
                  /\ procedural_test' = Test(tests[pc.test_idx + 1].name, <<>>)
             ELSE /\ pc' = [pc EXCEPT !.at = "return"]
                  /\ UNCHANGED procedural_test
    /\ SynthFrame

NextSynth == PushFuncs \/ WriteManifest

\* the body of generate_procedural_tests, as it runs with regeneration on
SpecSynth == InitSynth /\ [][NextSynth]_vars

(* --------------------------------- main -------------------------------- *)
\* the tests main runs
TESTS ==
    <<"opaque_example", "structs", "by_ref", "i8", "i16", "i32", "i64", "u8", "u16",
      "u32", "u64", "f32", "f64", "ptr", "bool", "ui128">>

\* the first MaxTests of them
TestNames == SubSeq(TESTS, 1, Min(MaxTests, Len(TESTS)))

\* the (caller, callee) pairs of backends each test runs with
TEST_PAIRS == << <<"rust", "c">>, <<"c", "rust">> >>

\* a subtest result that is a failure
SubtestFailed(i) == OutputCountMismatch(i, <<>>, << <<>> >>)

\* reports do_test can return for a test of n subtests: the first k of them
\* passed and the others failed
Reports(n) ==
    {TestReport([i \in 1..n |-> {"C"}],
                [i \in 1..n |-> IF i <= k THEN Passed ELSE SubtestFailed(i - 1)]) :
        k \in 0..n}

\* what do_test can return to main: the Io error of read_test_manifest when
\* the manifest cannot be opened, otherwise a BuildError of a later step or
\* the report of a test without subtests or with MaxFuncs of them
DoTestResults(test_name) ==
    IF ~manifests[test_name]
    THEN {Err(BuildError("Io"))}
    ELSE {Err(BuildError(kind)) : kind \in {"Unsupported", "CCompile"}}
            \cup Reports(0) \cup Reports(MaxFuncs)

\* main starts with any of the manifests missing
InitMain ==
    /\ main_pc = "generate_procedural_tests"
    /\ manifests \in [{TestNames[i] : i \in 1..Len(TestNames)} -> BOOLEAN]
    /\ test_i = 1
    /\ pair_i = 1
    /\ reports = <<>>
    /\ passes = 0
    /\ fails = 0
    /\ total_fails = 0
    /\ exit_code = -1
    /\ pc = "idle"
    /\ steps = <<>>
    /\ test = <<>>
    /\ is_handwritten = FALSE
    /\ bufs = NoBuffers
    /\ nfin = [b \in Buffers |-> 0]
    /\ ncalls = 0
    /\ func_idx = 0
    /\ results = <<>>
    /\ result = NoResult
    /\ calls = <<>>
    /\ plan = <<>>
    /\ NoVals
    /\ OneRun
    /\ NoSynthesis
    /\ NoFiles

\* main leaves the state of a pairing to do_test
MainFrame ==
    UNCHANGED <<pc, steps, test, is_handwritten, bufs, nfin, ncalls, func_idx, results,
                result, calls, plan, val1, val2, names, other_bufs, first_result,
                procedural_test, fsvars>>

\* the Tests generate_procedural_tests builds past its early return
BuiltTests == [i \in 1..Len(tests) |-> BuildFuncs(tests[i].vals, 1)]

\* the call of generate_procedural_tests: it returns at once when
\* regeneration is disabled; otherwise it builds the Test of every entry of
\* its table and creates or truncates its manifest, unless an insert or an
\* unwrap panics
GenerateProceduralTests ==
    /\ main_pc = "generate_procedural_tests"
    /\ IF RegenerationDisabled
       THEN /\ main_pc' = "tests"
            /\ UNCHANGED <<manifests, created, procedural_test>>
       ELSE \/ /\ \A i \in 1..Len(tests) : ~BuiltTests[i].panicked
               /\ main_pc' = "tests"
               /\ procedural_test' = Test(tests[Len(tests)].name,
                                          BuiltTests[Len(tests)].funcs)
               /\ created' = created \cup {TestFile(name) : name \in ProceduralNames}
               /\ manifests' = [name \in DOMAIN manifests |->
                                   manifests[name] \/ name \in ProceduralNames]
            \/ /\ main_pc' = "panic"
               /\ \E i \in 1..Len(tests) :
                     /\ \A k \in 1..(i - 1) : ~BuiltTests[k].panicked
                     /\ procedural_test' =
                            Test(tests[i].name,
                                 IF BuiltTests[i].panicked THEN <<>> ELSE BuiltTests[i].funcs)
                     /\ created' = created \cup {TestFile(tests[k].name) : k \in 1..(i - 1)}
                     /\ manifests' = [name \in DOMAIN manifests |->
                                         manifests[name]
                                            \/ \E k \in 1..(i - 1) : tests[k].name = name]
    /\ UNCHANGED <<test_i, pair_i, reports, passes, fails, total_fails, exit_code>>
    /\ UNCHANGED <<pc, steps, test, is_handwritten, bufs, nfin, ncalls, func_idx, results,
                   result, calls, plan, val1, val2, names, other_bufs, first_result,
                   src_dir, generated, compiled>>

\* the next iteration of the two nested loops
NextPairing ==
    IF pair_i < Len(TEST_PAIRS)
    THEN /\ pair_i' = pair_i + 1
         /\ test_i' = test_i
         /\ main_pc' = "tests"
    ELSE /\ pair_i' = 1
         /\ test_i' = test_i + 1
         /\ main_pc' = IF test_i < Len(TestNames) THEN "tests" ELSE "summary"

\* a mutation of DoTest: an Err ends the loops
DoTest_StopOnError ==
    /\ main_pc = "tests"
    /\ \E r \in DoTestResults(TestNames[test_i]) :
          /\ reports' = Append(reports,
                               [test_name |-> TestNames[test_i],
                                caller |-> TEST_PAIRS[pair_i][1],
                                callee |-> TEST_PAIRS[pair_i][2],
                                result |-> r])
          /\ IF r.tag = "Err"
             THEN main_pc' = "summary" /\ UNCHANGED <<test_i, pair_i>>
             ELSE NextPairing
    /\ UNCHANGED <<manifests, passes, fails, total_fails, exit_code>>
    /\ MainFrame

\* one iteration of the loops of main: do_test on the pairing, its result
\* pushed on reports whatever it is
DoTest ==
    /\ main_pc = "tests"
    /\ \E r \in DoTestResults(TestNames[test_i]) :
          reports' = Append(reports,
                            [test_name |-> TestNames[test_i],
                             caller |-> TEST_PAIRS[pair_i][1],
                             callee |-> TEST_PAIRS[pair_i][2],
                             result |-> r])
    /\ NextPairing
    /\ UNCHANGED <<manifests, passes, fails, total_fails, exit_code>>
    /\ MainFrame

\* report.results.iter().filter(|r| r.is_ok()).count()
RECURSIVE NumPassed(_, _)
NumPassed(r, i) ==
    IF i > Len(r) THEN 0
    ELSE (IF r[i].kind = "Ok" THEN 1 ELSE 0) + NumPassed(r, i + 1)

\* a mutation of Tally: a pairing whose subtests all passed is not counted
RECURSIVE Tally_SkipAllPassed(_, _)
Tally_SkipAllPassed(k, count) ==
    IF k > Len(reports) THEN count
    ELSE LET report == reports[k].result IN
         IF report.tag = "Err"
         THEN Tally_SkipAllPassed(k + 1, [count EXCEPT !.total_fails = @ + 1])
         ELSE LET num_passed == NumPassed(report.results, 1)
                  zipped == Min(Len(report.test), Len(report.results))
              IN  IF num_passed = Len(report.results)
                  THEN Tally_SkipAllPassed(k + 1, count)
                  ELSE Tally_SkipAllPassed(k + 1,
                             [count EXCEPT
                                 !.passes = @ + NumPassed(SubSeq(report.results, 1, zipped), 1),
                                 !.fails = @ + zipped
                                             - NumPassed(SubSeq(report.results, 1, zipped), 1)])

\* the counters after the printout loop went over reports[k..]
RECURSIVE Tally(_, _)
Tally(k, count) ==
    IF k > Len(reports) THEN count
    ELSE LET report == reports[k].result IN
         IF report.tag = "Err"
         THEN Tally(k + 1, [count EXCEPT !.total_fails = @ + 1])
         ELSE LET num_passed == NumPassed(report.results, 1)
                  zipped == Min(Len(report.test), Len(report.results))
              IN  IF num_passed = Len(report.results)
                  THEN Tally(k + 1, [count EXCEPT !.passes = @ + num_passed])
                  ELSE Tally(k + 1,
                             [count EXCEPT
                                 !.passes = @ + NumPassed(SubSeq(report.results, 1, zipped), 1),
                                 !.fails = @ + zipped
                                             - NumPassed(SubSeq(report.results, 1, zipped), 1)])

\* the printout of the final results
Summarize ==
    /\ main_pc = "summary"
    /\ LET count == Tally(1, [passes |-> 0, fails |-> 0, total_fails |-> 0]) IN
          /\ passes' = count.passes
          /\ fails' = count.fails
          /\ total_fails' = count.total_fails
    /\ main_pc' = "return"
    /\ UNCHANGED <<manifests, test_i, pair_i, reports, exit_code>>
    /\ MainFrame

\* a mutation of MainReturn: a pairing that failed completely is an Err of main
MainReturn_ErrOnFailure ==
    /\ main_pc = "return"
    /\ main_pc' = "exited"
    /\ exit_code' = IF \E n \in 1..Len(reports) : reports[n].result.tag = "Err"
                    THEN 1 ELSE 0
    /\ UNCHANGED <<manifests, test_i, pair_i, reports, passes, fails, total_fails>>
    /\ MainFrame

\* main returns Ok(()): the process exits with code 0
MainReturn ==
    /\ main_pc = "return"
    /\ main_pc' = "exited"
    /\ exit_code' = 0
    /\ UNCHANGED <<manifests, test_i, pair_i, reports, passes, fails, total_fails>>
    /\ MainFrame

NextMain ==
    \/ GenerateProceduralTests
    \/ DoTest
    \/ Summarize
    \/ MainReturn

SpecMain == InitMain /\ [][NextMain]_vars

(* ------------------------ the two sides of a test ---------------------- *)
\* the caller side reports on caller_inputs and caller_outputs, the callee
\* side on callee_inputs and callee_outputs
Sides == {"caller", "callee"}

SideBuffers(side) ==
    IF side = "caller"
    THEN {"caller_inputs", "caller_outputs"}
    ELSE {"callee_inputs", "callee_outputs"}

\* a call of one of the three callbacks
WriteFieldCall(output, data) ==
    [op |-> "write_field", output1 |-> output, output2 |-> output, data |-> data]

FinishedValCall(output) ==
    [op |-> "finished_val", output1 |-> output, output2 |-> output, data |-> <<>>]

FinishedFuncCall(output1, output2) ==
    [op |-> "finished_func", output1 |-> output1, output2 |-> output2, data |-> <<>>]

\* the callback does not panic on the buffers b
CanCall(b, call) ==
    IF call.op = "finished_val"
    THEN HasPendingFunc(b[call.output1])
    ELSE HasPendingVal(b[call.output1]) /\ HasPendingVal(b[call.output2])

\* the buffers b after the callback
callback(b, call) ==
    IF call.op = "write_field"
    THEN [b EXCEPT ![call.output1] = write_field(@, call.data)]
    ELSE IF call.op = "finished_val"
         THEN [b EXCEPT ![call.output1] = finished_val(@)]
         ELSE finished_func(b, call.output1, call.output2)

\* test_start is running, no callback was called yet
InitSides ==
    /\ pc = "test_start"
    /\ steps = <<"load">>
    /\ test = <<>>
    /\ is_handwritten = FALSE
    /\ bufs = [b \in Buffers |-> WriteBuffer_new]
    /\ nfin = [b \in Buffers |-> 0]
    /\ ncalls = 0
    /\ func_idx = 0
    /\ results = <<>>
    /\ result = NoResult
    /\ MainIdle
    /\ calls = [side \in Sides |-> <<>>]
    /\ plan = <<>>
    /\ NoVals
    /\ OneRun
    /\ NoSynthesis
    /\ NoFiles

\* a side calls a callback on its own buffers
SideCall(side, call) ==
    /\ pc = "test_start"
    /\ ncalls < MaxCalls
    /\ IF CanCall(bufs, call)
       THEN /\ bufs' = callback(bufs, call)
            /\ calls' = [calls EXCEPT ![side] = Append(@, call)]
            /\ nfin' = IF call.op = "finished_func"
                       THEN [nfin EXCEPT ![call.output1] = @ + 1, ![call.output2] = @ + 1]
                       ELSE nfin
            /\ ncalls' = ncalls + 1
            /\ UNCHANGED <<pc, steps, test, is_handwritten, func_idx, results, result>>
       ELSE Panic /\ UNCHANGED calls
    /\ UNCHANGED <<mainvars, plan, val1, val2, names, other_bufs, first_result,
                procedural_test, fsvars>>

SideWriteField ==
    \E side \in Sides : \E output \in SideBuffers(side) : \E data \in FieldVals :
        SideCall(side, WriteFieldCall(output, data))

SideFinishedVal ==
    \E side \in Sides : \E output \in SideBuffers(side) :
        SideCall(side, FinishedValCall(output))

SideFinishedFunc ==
    \E side \in Sides : \E output1, output2 \in SideBuffers(side) :
        /\ output1 # output2
        /\ SideCall(side, FinishedFuncCall(output1, output2))

NextSides ==
    \/ SideWriteField
    \/ SideFinishedVal
    \/ SideFinishedFunc
    \/ TestStartReturns
    \/ Finalize

SpecSides == InitSides /\ [][NextSides]_vars

(* --------------------- a side that follows the protocol ---------------- *)
\* the callbacks that report the value v on the buffer b: its fields in
\* order, then finished_val
ValueCalls(b, v) == [k \in 1..Len(v) |-> WriteFieldCall(b, v[k])] \o <<FinishedValCall(b)>>

\* the callbacks that report the values f[j..] on the buffer b
RECURSIVE FrameCalls(_, _, _)
FrameCalls(b, f, j) ==
    IF j > Len(f) THEN <<>> ELSE ValueCalls(b, f[j]) \o FrameCalls(b, f, j + 1)

\* the callbacks the caller side makes for the functions p[i..]: the inputs
\* of a function, its outputs, then finished_func on its two buffers
RECURSIVE Script(_, _)
Script(p, i) ==
    IF i > Len(p) THEN <<>>
    ELSE FrameCalls("caller_inputs", p[i].inputs, 1)
            \o FrameCalls("caller_outputs", p[i].outputs, 1)
            \o <<FinishedFuncCall("caller_inputs", "caller_outputs")>>
            \o Script(p, i + 1)

\* plan is any n functions whose 2n value lists weigh at most w + 2n together
RECURSIVE DrawPlan(_, _, _, _)
DrawPlan(n, k, w, drawn) ==
    IF k = 0
    THEN plan = [i \in 1..n |-> [inputs |-> drawn[2 * i - 1], outputs |-> drawn[2 * i]]]
    ELSE \E f \in FramesUpTo[w] :
            DrawPlan(n, k - 1, w + 1 - Weight(f), Append(drawn, f))

\* test_start is running on fresh buffers and the caller side is about to
\* report a bounded plan
InitProto ==
    /\ pc = "test_start"
    /\ steps = <<"load">>
    /\ test = <<>>
    /\ is_handwritten = FALSE
    /\ bufs = [b \in Buffers |-> WriteBuffer_new]
    /\ nfin = [b \in Buffers |-> 0]
    /\ ncalls = 0
    /\ func_idx = 0
    /\ results = <<>>
    /\ result = NoResult
    /\ MainIdle
    /\ calls = [side \in Sides |-> <<>>]
    /\ NoVals
    /\ OneRun
    /\ NoSynthesis
    /\ NoFiles
    /\ \E n \in 0..MaxFuncs :
          /\ 2 * n <= MaxWeight - 4
          /\ DrawPlan(n, 2 * n, MaxWeight - 4 - 2 * n, <<>>)

\* the caller side makes the next callback of its script
ProtoCall ==
    /\ pc = "test_start"
    /\ Len(calls["caller"]) < Len(Script(plan, 1))
    /\ LET call == Script(plan, 1)[Len(calls["caller"]) + 1] IN
          IF CanCall(bufs, call)
          THEN /\ bufs' = callback(bufs, call)
               /\ calls' = [calls EXCEPT !["caller"] = Append(@, call)]
               /\ nfin' = IF call.op = "finished_func"
                          THEN [nfin EXCEPT ![call.output1] = @ + 1, ![call.output2] = @ + 1]
                          ELSE nfin
               /\ UNCHANGED <<pc, steps, test, is_handwritten, ncalls, func_idx, results,
                              result>>
          ELSE Panic /\ UNCHANGED calls
    /\ UNCHANGED <<mainvars, plan, val1, val2, names, other_bufs, first_result,
                procedural_test, fsvars>>

\* test_start returns once the script is done
ProtoReturns ==
    /\ calls["caller"] = Script(plan, 1)
    /\ TestStartReturns

NextProto ==
    \/ ProtoCall
    \/ ProtoReturns
    \/ Finalize

SpecProto == InitProto /\ [][NextProto]_vars

(* ------------------------- arg_ty on drawn Vals ------------------------ *)
\* the Vals drawn: the primitive ones and the struct names they are built from
DrawnPrims == {Bool, IntOf("c_int32_t")}

DrawnStructNames == {"a", "b"}

\* the Vals of exactly n nodes and the lists of Vals of n nodes together;
\* an array has at least one element
RECURSIVE ValsOfSize(_)
RECURSIVE ValListsOfSize(_)
ValsOfSize(n) ==
    IF n < 1 THEN {}
    ELSE (IF n = 1 THEN DrawnPrims ELSE {})
            \cup {Ref(x) : x \in ValsOfSize(n - 1)}
            \cup {Array(s) : s \in ValListsOfSize(n - 1) \ {<<>>}}
            \cup {Struct(name, s) : name \in DrawnStructNames, s \in ValListsOfSize(n - 1)}

ValListsOfSize(n) ==
    IF n = 0
    THEN {<<>>}
    ELSE UNION {{<<x>> \o s : x \in ValsOfSize(a), s \in ValListsOfSize(n - a)} :
                a \in 1..n}

\* the Vals of at most MaxValNodes nodes
DrawnVals == UNION {ValsOfSize(n) : n \in 1..MaxValNodes}

\* two Vals whose names are still to be computed
InitArgTy ==
    /\ val1 \in DrawnVals
    /\ val2 \in DrawnVals
    /\ names = <<>>
    /\ pc = "arg_ty"
    /\ steps = <<>>
    /\ test = <<>>
    /\ is_handwritten = FALSE
    /\ bufs = NoBuffers
    /\ nfin = [b \in Buffers |-> 0]
    /\ ncalls = 0
    /\ func_idx = 0
    /\ results = <<>>
    /\ result = NoResult
    /\ MainIdle
    /\ calls = <<>>
    /\ plan = <<>>
    /\ OneRun
    /\ NoSynthesis
    /\ NoFiles

\* arg_ty is called on both
ArgTy ==
    /\ pc = "arg_ty"
    /\ names' = <<arg_ty(val1), arg_ty(val2)>>
    /\ pc' = "done"
    /\ UNCHANGED <<steps, test, is_handwritten, bufs, nfin, ncalls, func_idx, results,
                   result, mainvars, calls, plan, val1, val2, other_bufs, first_result,
                   procedural_test, fsvars>>

NextArgTy == ArgTy

SpecArgTy == InitArgTy /\ [][NextArgTy]_vars

(* ------------------ two runs of the reconciliation loop ---------------- *)
\* bufs is any four buffers of n frames each and other_bufs differs from it
\* inside the frame j only: 4n frames and 4 frames to put in place of the
\* j-th are drawn, w is the weight left for their values and fields
RECURSIVE DrawTwoRuns(_, _, _, _)
DrawTwoRuns(n, k, w, drawn) ==
    IF k = 0
    THEN /\ bufs = BuffersOf(n, SubSeq(drawn, 1, 4 * n))
         /\ \E j \in 1..n :
               other_bufs =
                   [b \in Buffers |->
                       [bufs[b] EXCEPT
                           ![j] = BuffersOf(1, SubSeq(drawn, 4 * n + 1, 4 * n + 4))[b][1]]]
    ELSE \E f \in FramesUpTo[w] :
            DrawTwoRuns(n, k - 1, w + 1 - Weight(f), Append(drawn, f))

\* the first run right after its count check passed, for a test of MaxFuncs
\* functions; the buffers of the second run are kept aside
InitTwoRuns ==
    /\ pc = "reconcile"
    /\ steps = StepsToReconcile
    /\ 4 * MaxFuncs <= MaxWeight
    /\ test = [i \in 1..MaxFuncs |-> {"C"}]
    /\ DrawTwoRuns(MaxFuncs, 4 * MaxFuncs + 4, MaxWeight - 4 * MaxFuncs, <<>>)
    /\ nfin = [b \in Buffers |-> MaxFuncs]
    /\ is_handwritten = FALSE
    /\ ncalls = MaxCalls
    /\ func_idx = 0
    /\ results = <<>>
    /\ result = NoResult
    /\ first_result = NoResult
    /\ NoFiles
    /\ MainIdle
    /\ calls = <<>>
    /\ plan = <<>>
    /\ NoVals
    /\ NoSynthesis

\* the first run returned its report: the second run stands right after its
\* count check passed, on the other buffers
SecondRun ==
    /\ pc = "done"
    /\ first_result = NoResult
    /\ first_result' = result
    /\ bufs' = other_bufs
    /\ other_bufs' = bufs
    /\ pc' = "reconcile"
    /\ steps' = StepsToReconcile
    /\ func_idx' = 0
    /\ results' = <<>>
    /\ result' = NoResult
    /\ UNCHANGED <<test, is_handwritten, nfin, ncalls, mainvars, calls, plan, val1, val2,
                   names, procedural_test, fsvars>>

NextTwoRuns ==
    \/ ReconcileFunc
    \/ Report
    \/ SecondRun

SpecTwoRuns == InitTwoRuns /\ [][NextTwoRuns]_vars

(* ------------------------ the sources of a pairing --------------------- *)
\* do_test up to the two compiles
NextSources ==
    \/ ReadManifest
    \/ HandwrittenCheck
    \/ CreateDirs
    \/ GenerateCaller
    \/ GenerateCallee
    \/ CompileCaller
    \/ CompileCallee

SpecSources == Init /\ [][NextSources]_vars

(* ------------------------------ the claims ---------------------------- *)
Executed(step) == \E n \in 1..Len(steps) : steps[n] = step

IsCountMismatch(r) == r.tag = "Err" /\ r.error.kind = "TestCountMismatch"

\* C1: while the loaded test runs (after the four WriteBuffer::new() and after
\* any sequence of callbacks, finished_func on two distinct buffers), every
\* buffer ends with a pending function that ends with a pending value, and no
\* unwrap() in a callback has failed.
C1_PendingFrames ==
    /\ pc # "panic"
    /\ pc \in {"test_start", "finish_tests"} =>
          \A b \in Buffers : Len(bufs[b]) >= 1 /\ Len(bufs[b][Len(bufs[b])]) >= 1

\* a buffer that saw finished_func, then finished_val, then write_field
C1_Witness ==
    /\ pc = "test_start"
    /\ \E b \in Buffers :
          /\ nfin[b] >= 1
          /\ Len(Last(bufs[b])) >= 2
          /\ Len(Last(Last(bufs[b]))) >= 1

\* C2: after finish_tests a buffer to which finished_func was applied N times
\* holds exactly N function frames; when that N is |test.funcs| for all four
\* buffers, run_dynamic_test does not return TestCountMismatch.
C2_FramesEqualFinishedFuncs ==
    Executed("finish_tests") =>
        /\ \A b \in Buffers : Len(bufs[b]) = nfin[b]
        /\ (\A b \in Buffers : nfin[b] = Len(test)) => ~IsCountMismatch(result)

\* two subtests framed on all four buffers, and the pairing reported
C2_Witness ==
    /\ Executed("finish_tests")
    /\ Len(test) = 2
    /\ \A b \in Buffers : nfin[b] = 2
    /\ result.tag = "Ok"

\* C3: once the count check ran, the result is TestCountMismatch, carrying the
\* expected count and the four actual counts, exactly when one of the four
\* buffers has a function count other than |test.funcs|; then there is no
\* TestReport and no per-subtest result.
C3_CountMismatchIff ==
    Executed("count_check") =>
        LET mismatch == \E b \in Buffers : Len(bufs[b]) # Len(test)
        IN  /\ IsCountMismatch(result) <=> mismatch
            /\ mismatch =>
                  /\ result.error.expected = Len(test)
                  /\ result.error.caller_in = Len(bufs["caller_inputs"])
                  /\ result.error.caller_out = Len(bufs["caller_outputs"])
                  /\ result.error.callee_in = Len(bufs["callee_inputs"])
                  /\ result.error.callee_out = Len(bufs["callee_outputs"])
                  /\ results = <<>>
                  /\ pc = "done"

\* a mismatch in which some of the four counts are the expected one
C3_Witness ==
    /\ Executed("count_check")
    /\ IsCountMismatch(result)
    /\ Len(test) >= 1
    /\ \E b \in Buffers : Len(bufs[b]) = Len(test)

\* the four views of the subtest recorded as entry n of results
CallerInputs(n) == bufs["caller_inputs"][n]
CalleeInputs(n) == bufs["callee_inputs"][n]
CallerOutputs(n) == bufs["caller_outputs"][n]
CalleeOutputs(n) == bufs["callee_outputs"][n]

\* what a results entry says: its kind and, where it has them, its 0-based
\* value and field index (-1 where the variant has none)
Outcome(r) ==
    [kind |-> r.kind,
     val_idx |-> IF "val_idx" \in DOMAIN r THEN r.val_idx ELSE -1,
     field_idx |-> IF "field_idx" \in DOMAIN r THEN r.field_idx ELSE -1]

\* the first value at which two value lists of equal length differ
FirstUnequalVal(c, e) ==
    CHOOSE j \in 1..Len(c) : c[j] # e[j] /\ \A j2 \in 1..(j - 1) : c[j2] = e[j2]

\* the first field at which two values of equal field count differ
FirstUnequalField(cv, ev) ==
    CHOOSE k \in 1..Len(cv) : cv[k] # ev[k] /\ \A k2 \in 1..(k - 1) : cv[k2] = ev[k2]

\* the first failure among the values of one side pair, named `dir`
ValueLevelOutcome(fieldCountKind, fieldKind, c, e) ==
    LET j == FirstUnequalVal(c, e)
    IN  IF Len(c[j]) # Len(e[j])
        THEN [kind |-> fieldCountKind, val_idx |-> j - 1, field_idx |-> -1]
        ELSE [kind |-> fieldKind, val_idx |-> j - 1,
              field_idx |-> FirstUnequalField(c[j], e[j]) - 1]

\* the outcome the fixed order of checks prescribes for results entry n
PrescribedOutcome(n) ==
    IF Len(CallerInputs(n)) # Len(CalleeInputs(n))
    THEN [kind |-> "InputCountMismatch", val_idx |-> -1, field_idx |-> -1]
    ELSE IF Len(CallerOutputs(n)) # Len(CalleeOutputs(n))
    THEN [kind |-> "OutputCountMismatch", val_idx |-> -1, field_idx |-> -1]
    ELSE IF CallerInputs(n) # CalleeInputs(n)
    THEN ValueLevelOutcome("InputFieldCountMismatch", "InputFieldMismatch",
                           CallerInputs(n), CalleeInputs(n))
    ELSE IF CallerOutputs(n) # CalleeOutputs(n)
    THEN ValueLevelOutcome("OutputFieldCountMismatch", "OutputFieldMismatch",
                           CallerOutputs(n), CalleeOutputs(n))
    ELSE [kind |-> "Ok", val_idx |-> -1, field_idx |-> -1]

\* C4: every results entry is the first applicable outcome in the order
\* InputCountMismatch, OutputCountMismatch, first input value that differs
\* (field count, else first unequal field), first output value that differs,
\* success.
C4_FirstFailureInOrder ==
    \A n \in 1..Len(results) : Outcome(results[n]) = PrescribedOutcome(n)

InputKinds == {"InputCountMismatch", "InputFieldCountMismatch", "InputFieldMismatch"}

\* an input field failure reported although the outputs disagree in a field too
C4_Witness ==
    \E n \in 1..Len(results) :
        /\ results[n].kind \in {"InputFieldCountMismatch", "InputFieldMismatch"}
        /\ Len(CallerOutputs(n)) = Len(CalleeOutputs(n))
        /\ CallerOutputs(n) # CalleeOutputs(n)

\* C5: a TestReport has one result per Func, entry n being the verdict of
\* function frame n; a failing subtest adds one Err and the loop goes on with
\* the next frame.
C5_OneResultPerFunc ==
    /\ pc = "reconcile" => Len(results) = func_idx /\ func_idx <= Len(test)
    /\ result.tag = "Ok" =>
          /\ Len(result.results) = Len(test)
          /\ \A n \in 1..Len(test) :
                /\ result.results[n] = FrameVerdict(n - 1)
                /\ result.results[n].kind # "Ok" => result.results[n].func_idx = n - 1

\* a report of two subtests whose first one failed
C5_Witness ==
    /\ result.tag = "Ok"
    /\ Len(test) = 2
    /\ Len(result.results) = 2
    /\ result.results[1].kind # "Ok"

\* the payload of a value-level failure r of subtest n over the side pair c, e
FieldMismatchPayloadOk(r, c, e) ==
    LET j == r.val_idx + 1
        k == r.field_idx + 1
    IN  /\ j \in 1..Len(c) /\ j \in 1..Len(e)
        /\ k \in 1..Len(c[j]) /\ k \in 1..Len(e[j])
        /\ r.caller = c[j][k]
        /\ r.callee = e[j][k]
        /\ r.caller # r.callee
        /\ \A j2 \in 1..(j - 1) : c[j2] = e[j2]
        /\ \A k2 \in 1..(k - 1) : c[j][k2] = e[j][k2]

FieldCountPayloadOk(r, c, e) ==
    LET j == r.val_idx + 1
    IN  /\ j \in 1..Len(c) /\ j \in 1..Len(e)
        /\ r.caller = c[j]
        /\ r.callee = e[j]
        /\ Len(c[j]) # Len(e[j])

CountPayloadOk(r, c, e) == r.caller = c /\ r.callee = e /\ Len(c) # Len(e)

\* C6: every failure carries the indices of the disagreement and both sides'
\* data there: a field mismatch the two unequal fields, with everything
\* before them equal; a field count mismatch the two whole values; a count
\* mismatch the two whole value lists.
C6_FailurePayload ==
    \A n \in 1..Len(results) :
        LET r == results[n]
        IN  /\ r.kind # "Ok" => r.func_idx = n - 1
            /\ r.kind = "InputFieldMismatch" =>
                  FieldMismatchPayloadOk(r, CallerInputs(n), CalleeInputs(n))
            /\ r.kind = "OutputFieldMismatch" =>
                  FieldMismatchPayloadOk(r, CallerOutputs(n), CalleeOutputs(n))
            /\ r.kind = "InputFieldCountMismatch" =>
                  FieldCountPayloadOk(r, CallerInputs(n), CalleeInputs(n))
            /\ r.kind = "OutputFieldCountMismatch" =>
                  FieldCountPayloadOk(r, CallerOutputs(n), CalleeOutputs(n))
            /\ r.kind = "InputCountMismatch" =>
                  CountPayloadOk(r, CallerInputs(n), CalleeInputs(n))
            /\ r.kind = "OutputCountMismatch" =>
                  CountPayloadOk(r, CallerOutputs(n), CalleeOutputs(n))

\* an input field mismatch at the second field of the second value
C6_Witness ==
    \E n \in 1..Len(results) :
        /\ results[n].kind = "InputFieldMismatch"
        /\ results[n].val_idx = 1
        /\ results[n].field_idx = 1

\* C7: a subtest is Ok exactly when the two sides' inputs are equal and their
\* outputs are equal as nested byte sequences.
C7_OkIffEqual ==
    \A n \in 1..Len(results) :
        results[n].kind = "Ok" <=>
            /\ CallerInputs(n) = CalleeInputs(n)
            /\ CallerOutputs(n) = CalleeOutputs(n)

\* a passed subtest with a field in an input and a field in an output
C7_Witness ==
    \E n \in 1..Len(results) :
        /\ results[n].kind = "Ok"
        /\ Len(CallerInputs(n)) >= 1 /\ Len(CallerInputs(n)[1]) >= 1
        /\ Len(CallerOutputs(n)) >= 1 /\ Len(CallerOutputs(n)[1]) >= 1

\* same number of values, same number of fields in each value
SameShape(c, e) ==
    /\ Len(c) = Len(e)
    /\ \A j \in 1..Len(c) : Len(c[j]) = Len(e[j])

OutputKinds == {"OutputCountMismatch", "OutputFieldCountMismatch", "OutputFieldMismatch"}

\* C8 as stated: the input framings have the same shape exactly when no input
\* failure is reported for the subtest, and likewise for the outputs (of a
\* subtest without input failure) and the output failures.
C8_ShapeIffCheckPassed ==
    \A n \in 1..Len(results) :
        /\ SameShape(CallerInputs(n), CalleeInputs(n)) <=> results[n].kind \notin InputKinds
        /\ results[n].kind \notin InputKinds =>
              (SameShape(CallerOutputs(n), CalleeOutputs(n))
                  <=> results[n].kind \notin OutputKinds)

\* C8 amended: when the input loop ran to its end (the subtest is Ok or has an
\* output field-level failure) the input framings have the same shape, and
\* when the subtest is Ok the output framings have the same shape too.
C8_CheckPassedImpliesShape ==
    \A n \in 1..Len(results) :
        /\ results[n].kind \in {"Ok", "OutputFieldCountMismatch", "OutputFieldMismatch"} =>
              SameShape(CallerInputs(n), CalleeInputs(n))
        /\ results[n].kind = "Ok" => SameShape(CallerOutputs(n), CalleeOutputs(n))

\* the input loop passed over a value with a field, the outputs failed in a field
C8_Witness ==
    \E n \in 1..Len(results) :
        /\ results[n].kind = "OutputFieldMismatch"
        /\ Len(CallerInputs(n)) >= 1
        /\ Len(CallerInputs(n)[1]) >= 1

IsMixingError(r) == r.tag = "Err" /\ r.error.kind = "HandwrittenMixing"

\* C9 as stated: the Test passes the handwritten check exactly when Handwritten
\* is among the conventions of every Func or of no Func.
C9_PassIffInAllOrNone ==
    Executed("handwritten_check") =>
        (~IsMixingError(result) <=>
            \/ \A i \in 1..Len(test) : "Handwritten" \in test[i]
            \/ \A i \in 1..Len(test) : "Handwritten" \notin test[i])

\* C9 amended: the Test passes the handwritten check exactly when no Func
\* lists Handwritten or every Func lists nothing but Handwritten.
C9_PassIffOnlyOrNone ==
    Executed("handwritten_check") =>
        (~IsMixingError(result) <=>
            \/ \A i \in 1..Len(test) : "Handwritten" \notin test[i]
            \/ \A i \in 1..Len(test) : test[i] \subseteq {"Handwritten"})

\* a Test of two Funcs that both list only Handwritten went on to compile
C9_Witness ==
    /\ Executed("handwritten_check")
    /\ Len(test) = 2
    /\ \A i \in 1..Len(test) : test[i] = {"Handwritten"}
    /\ pc = "compile_caller"

\* the steps the claim orders, for a handwritten and for a generated test
StepOrder(handwritten) ==
    IF handwritten
    THEN <<"read_test_manifest", "handwritten_check",
           "compile_caller", "compile_callee", "build_harness", "load", "test_start",
           "reconcile">>
    ELSE <<"read_test_manifest", "handwritten_check", "generate_caller", "generate_callee",
           "compile_caller", "compile_callee", "build_harness", "load", "test_start",
           "reconcile">>

OrderedSteps == {StepOrder(FALSE)[n] : n \in 1..Len(StepOrder(FALSE))}

IsOrderedStep(step) == step \in OrderedSteps

IsPrefix(p, q) == Len(p) <= Len(q) /\ \A n \in 1..Len(p) : p[n] = q[n]

\* C10: the steps of a pairing run in the fixed order (generation only for a
\* test that is not handwritten), each only after all earlier ones succeeded;
\* an error is the pairing's result, it comes from the last step executed and
\* nothing runs after it; a report comes after all the steps.
C10_StepsInOrder ==
    LET ordered == SelectSeq(steps, IsOrderedStep) IN
    /\ IsPrefix(ordered, StepOrder(is_handwritten))
    /\ result.tag = "Err" =>
          /\ pc = "done"
          /\ ~ENABLED Next
          /\ result.error.kind = "HandwrittenMixing" => Last(steps) = "handwritten_check"
          /\ result.error.kind = "Unsupported" =>
                Last(steps) \in {"generate_caller", "generate_callee"}
          /\ result.error.kind = "LoadError" => Last(steps) = "load"
          /\ result.error.kind = "TestCountMismatch" => Last(steps) = "count_check"
    /\ result.tag = "Ok" =>
          ordered = StepOrder(is_handwritten)
    /\ result.tag = "none" => pc # "done"

\* generating the callee source failed: the pairing ended before any compile
C10_Witness ==
    /\ result.tag = "Err"
    /\ result.error.kind = "Unsupported"
    /\ Last(steps) = "generate_callee"
    /\ ~Executed("compile_caller")

\* the number of pairings main has to run
NumPairings == Len(TestNames) * Len(TEST_PAIRS)

\* the n-th pairing in the order of the loops: tests outside, pairs inside
PairingAt(n) ==
    [test_name |-> TestNames[((n - 1) \div Len(TEST_PAIRS)) + 1],
     caller |-> TEST_PAIRS[((n - 1) % Len(TEST_PAIRS)) + 1][1],
     callee |-> TEST_PAIRS[((n - 1) % Len(TEST_PAIRS)) + 1][2]]

IsErrEntry(n) == reports[n].result.tag = "Err"

SomeManifestMissing == \E name \in DOMAIN manifests : ~manifests[name]

CallingSide(side) == calls'[side] # calls[side]

\* the callback this step runs for the side
TheCall(side) == Last(calls'[side])

\* the calls of a side that work on the buffer b
OnBuffer(side, b) ==
    SelectSeq(calls[side], LAMBDA c : c.output1 = b \/ c.output2 = b)

\* the function frame f without its last value
FrontOf(f) == SubSeq(f, 1, Len(f) - 1)

\* what finished_func does to the buffer b: the pending function loses its
\* last value and a pending function of one empty value follows it
FinishedFuncEffect(b) ==
    /\ Len(bufs'[b]) = Len(bufs[b]) + 1
    /\ \A i \in 1..(Len(bufs[b]) - 1) : bufs'[b][i] = bufs[b][i]
    /\ bufs'[b][Len(bufs[b])] = FrontOf(Last(bufs[b]))
    /\ Last(bufs'[b]) = << <<>> >>

\* the step is finished_func(output1, output2), called by the side
IsFinishedFuncStep(side) == CallingSide(side) /\ TheCall(side).op = "finished_func"

\* C13 as stated: finished_func(a, b) removes the trailing pending value of
\* each of the two buffers and appends a pending function of one empty value
\* to each, and in any callback sequence the value it removes is empty.
C13_RemovedValueIsEmpty ==
    [][\A side \in Sides :
          IsFinishedFuncStep(side) =>
              \A b \in {TheCall(side).output1, TheCall(side).output2} :
                  /\ FinishedFuncEffect(b)
                  /\ Last(Last(bufs[b])) = <<>>]_vars

\* C13: finished_func(a, b) removes the trailing pending value of each of
\* the two buffers and appends a pending function of one empty value to
\* each, leaving the other buffers alone; the value removed from a buffer is
\* empty exactly when no write_field was called on that buffer since the
\* last finished_val or finished_func on it, so the fields written to a
\* value are kept when finished_val closes it before finished_func.
C13_RemovedValueEmptyIfClosed ==
    [][\A side \in Sides :
          IsFinishedFuncStep(side) =>
              /\ \A b \in {TheCall(side).output1, TheCall(side).output2} :
                    /\ FinishedFuncEffect(b)
                    /\ Last(Last(bufs[b])) = <<>>
                          <=> \/ OnBuffer(side, b) = <<>>
                              \/ Last(OnBuffer(side, b)).op # "write_field"
              /\ \A b \in Buffers \ {TheCall(side).output1, TheCall(side).output2} :
                    bufs'[b] = bufs[b]]_vars

\* the caller closed a value with a field by finished_val and then called
\* finished_func: the frame keeps the value, the empty one after it is gone
C13_Witness ==
    /\ Len(calls["caller"]) >= 2
    /\ Last(calls["caller"]).op = "finished_func"
    /\ calls["caller"][Len(calls["caller"]) - 1].op = "finished_val"
    /\ \E f \in 1..(Len(bufs["caller_inputs"]) - 1) :
          /\ Len(bufs["caller_inputs"][f]) = 1
          /\ bufs["caller_inputs"][f][1] # <<>>

\* the buffers other than b, and the harness state the callbacks cannot
\* reach, are as before the step
OnlyBufferChanged(b) ==
    /\ \A other \in Buffers \ {b} : bufs'[other] = bufs[other]
    /\ UNCHANGED <<pc, steps, test, is_handwritten, func_idx, results, result>>

\* C14: finished_val(buf) appends exactly one empty value to the pending
\* function of buf: the functions before it, the values and fields it
\* already has, the other buffers and the state of the harness stay as they
\* were.
C14_FinishedValFrame ==
    [][\A side \in Sides :
          CallingSide(side) /\ TheCall(side).op = "finished_val" =>
              LET b == TheCall(side).output1 IN
                  /\ Len(bufs'[b]) = Len(bufs[b])
                  /\ \A i \in 1..(Len(bufs[b]) - 1) : bufs'[b][i] = bufs[b][i]
                  /\ Len(Last(bufs'[b])) = Len(Last(bufs[b])) + 1
                  /\ \A j \in 1..Len(Last(bufs[b])) : Last(bufs'[b])[j] = Last(bufs[b])[j]
                  /\ Last(Last(bufs'[b])) = <<>>
                  /\ OnlyBufferChanged(b)]_vars

\* finished_val was called after a field was written: the pending function
\* holds the value with the field and the new empty value
C14_Witness ==
    /\ calls["callee"] # <<>>
    /\ Last(calls["callee"]).op = "finished_val"
    /\ \E b \in SideBuffers("callee") :
          /\ Last(calls["callee"]).output1 = b
          /\ Len(Last(bufs[b])) = 2
          /\ Last(bufs[b])[1] # <<>>
          /\ Last(bufs[b])[2] = <<>>

\* C18: write_field(buf, ptr, size) appends exactly one field, holding the
\* bytes read, to the pending value of the pending function of buf: the
\* number of functions, the number of values, the fields written before and
\* the three other buffers stay as they were.
C18_WriteFieldFrame ==
    [][\A side \in Sides :
          CallingSide(side) /\ TheCall(side).op = "write_field" =>
              LET b == TheCall(side).output1
                  old == Last(Last(bufs[b]))
                  new == Last(Last(bufs'[b]))
              IN  /\ Len(bufs'[b]) = Len(bufs[b])
                  /\ \A i \in 1..(Len(bufs[b]) - 1) : bufs'[b][i] = bufs[b][i]
                  /\ Len(Last(bufs'[b])) = Len(Last(bufs[b]))
                  /\ \A j \in 1..(Len(Last(bufs[b])) - 1) :
                        Last(bufs'[b])[j] = Last(bufs[b])[j]
                  /\ Len(new) = Len(old) + 1
                  /\ \A k \in 1..Len(old) : new[k] = old[k]
                  /\ Last(new) = TheCall(side).data
                  /\ OnlyBufferChanged(b)]_vars

\* the caller wrote a second, different field to a pending value that
\* follows a closed value
C18_Witness ==
    /\ Len(calls["caller"]) >= 3
    /\ Last(calls["caller"]).op = "write_field"
    /\ \E b \in SideBuffers("caller") :
          /\ Last(calls["caller"]).output1 = b
          /\ Len(Last(bufs[b])) = 2
          /\ Len(Last(Last(bufs[b]))) = 2
          /\ Last(Last(bufs[b]))[1] # Last(Last(bufs[b]))[2]

\* the buffers b after the calls s[i..], made one after the other
RECURSIVE Replay(_, _, _)
Replay(b, s, i) == IF i > Len(s) THEN b ELSE Replay(callback(b, s[i]), s, i + 1)

\* the buffers when the caller side makes all its calls before the callee
\* side makes its first
CallerThenCallee ==
    Replay([b \in Buffers |-> WriteBuffer_new], calls["caller"] \o calls["callee"], 1)

\* C15: however the callbacks of the caller side (on caller_inputs and
\* caller_outputs) and those of the callee side (on callee_inputs and
\* callee_outputs) interleave, each side keeping its own order, the buffers
\* are those of the caller's calls followed by the callee's, while
\* test_start runs and after the buffers are finalized; the reconciliation
\* reads nothing else of the run.
C15_InterleavingIrrelevant ==
    /\ pc \in {"test_start", "finish_tests"} => bufs = CallerThenCallee
    /\ pc = "count_check" =>
          bufs = [b \in Buffers |-> finish_tests(CallerThenCallee[b])]

\* the buffers were finalized after each side wrote a field and finished a
\* function
C15_Witness ==
    /\ pc = "count_check"
    /\ \A side \in Sides :
          /\ Len(calls[side]) = 2
          /\ calls[side][1].op = "write_field"
          /\ calls[side][2].op = "finished_func"
    /\ calls["caller"][1].data # calls["callee"][1].data

\* the number of finished_val calls made on the buffer b for the i-th
\* function: those between the (i-1)-th and the i-th finished_func
RECURSIVE FinishedValsFor(_, _, _, _)
FinishedValsFor(s, b, i, n) ==
    IF n > Len(s) \/ i = 0 THEN 0
    ELSE IF s[n].op = "finished_func" THEN FinishedValsFor(s, b, i - 1, n + 1)
    ELSE (IF i = 1 /\ s[n].op = "finished_val" /\ s[n].output1 = b THEN 1 ELSE 0)
            + FinishedValsFor(s, b, i, n + 1)

\* the finalized buffer holds the reported value lists in call order
HoldsInOrder(buffer, reported) ==
    /\ Len(buffer) = Len(reported)
    /\ \A i \in 1..Len(reported) :
          /\ Len(buffer[i]) = Len(reported[i])
          /\ \A j \in 1..Len(reported[i]) :
                /\ Len(buffer[i][j]) = Len(reported[i][j])
                /\ \A k \in 1..Len(reported[i][j]) : buffer[i][j][k] = reported[i][j][k]

\* C16: for a side that follows the protocol the finalized buffer keeps the
\* call order: entry [i][j][k] is the bytes of the k-th write_field of the
\* j-th value of the i-th function, frame i has as many values as
\* finished_val was called for it, and a function without values closes as
\* an empty frame.
C16_FinalizedKeepsCallOrder ==
    pc = "count_check" =>
        /\ HoldsInOrder(bufs["caller_inputs"], [i \in 1..Len(plan) |-> plan[i].inputs])
        /\ HoldsInOrder(bufs["caller_outputs"], [i \in 1..Len(plan) |-> plan[i].outputs])
        /\ \A b \in SideBuffers("caller") : \A i \in 1..Len(bufs[b]) :
              Len(bufs[b][i]) = FinishedValsFor(calls["caller"], b, i, 1)

\* the buffers were finalized after two functions: the first reported an
\* input value of two different fields and no output, the second an output
C16_Witness ==
    /\ pc = "count_check"
    /\ Len(plan) = 2
    /\ \E v \in 1..Len(plan[1].inputs) :
          /\ Len(plan[1].inputs[v]) = 2
          /\ plan[1].inputs[v][1] # plan[1].inputs[v][2]
    /\ plan[1].outputs = <<>>
    /\ plan[2].outputs # <<>>
    /\ bufs["caller_outputs"][1] = <<>>

\* the struct declarations (name and fields) a Val contains
RECURSIVE StructDecls(_)
StructDecls(val) ==
    (IF val.con = "Struct" THEN {<<val.name, val.vals>>} ELSE {})
        \cup UNION {StructDecls(val.vals[i]) : i \in 1..Len(val.vals)}

\* every array of the Val has elements of one shape
RECURSIVE Homogeneous(_)
Homogeneous(val) ==
    /\ val.con = "Array" => \A i \in 1..Len(val.vals) : val.vals[i] = val.vals[1]
    /\ \A i \in 1..Len(val.vals) : Homogeneous(val.vals[i])

\* the two Vals can stand in one Test: a struct name has one list of fields
ConsistentStructs ==
    \A d, e \in StructDecls(val1) \cup StructDecls(val2) : d[1] = e[1] => d[2] = e[2]

\* the two Vals, which carry no literals, have the same type shape
SameTypeShape == val1 = val2

\* C17 as stated: any two Vals with non-empty arrays to which arg_ty gives
\* the same name have the same type shape, struct fields and array element
\* shapes included.
C17_ArgTyInjective ==
    names # <<>> => (names[1] = names[2] => SameTypeShape)

\* C17: two Vals with non-empty arrays to which arg_ty gives the same name
\* have the same type shape, provided that every array has elements of one
\* shape and that a struct name stands for one list of fields in both of
\* them; arg_ty reads neither the fields of a struct nor the elements of an
\* array after the first.
C17_ArgTyInjectiveOnConsistent ==
    names # <<>> /\ ConsistentStructs /\ Homogeneous(val1) /\ Homogeneous(val2) =>
        (names[1] = names[2] <=> SameTypeShape)

\* arg_ty gave one name to two equal arrays of two structs with a field
C17_Witness ==
    /\ names # <<>>
    /\ names[1] = names[2]
    /\ val1.con = "Array"
    /\ Len(val1.vals) = 2
    /\ val1.vals[1].con = "Struct"
    /\ ConsistentStructs
    /\ Homogeneous(val1)
    /\ val2 = val1

\* the two runs have the same function frame i in each of the four buffers
SameFrame(i) == \A b \in Buffers : bufs[b][i] = other_bufs[b][i]

BothRunsDone == pc = "done" /\ first_result.tag = "Ok"

\* C19: the two runs have the expected number of function frames in the
\* four finalized buffers and differ inside one frame only: each reports one
\* result per function, and the results of every function whose frame is
\* the same in both runs are identical.
C19_VerdictsIndependent ==
    BothRunsDone =>
        /\ result.tag = "Ok"
        /\ Len(result.results) = Len(test)
        /\ Len(first_result.results) = Len(test)
        /\ Cardinality({i \in 1..Len(test) : ~SameFrame(i)}) <= 1
        /\ \A i \in 1..Len(test) :
              SameFrame(i) => result.results[i] = first_result.results[i]

\* the runs differ inside the first frame, which passed in the first run
\* and failed in the second; the frame after it is not empty and passed in
\* both
C19_Witness ==
    /\ BothRunsDone
    /\ ~SameFrame(1)
    /\ first_result.results[1].kind = "Ok"
    /\ result.results[1].kind # "Ok"
    /\ SameFrame(2)
    /\ bufs["caller_inputs"][2] # <<>>
    /\ result.results[2].kind = "Ok"

\* every Func of the test uses only the Handwritten convention
EveryFuncOnlyHandwritten == \A i \in 1..Len(test) : \A c \in test[i] : c = "Handwritten"

\* do_test made no directory and no file
NothingCreated == created = {} /\ generated = {}

\* the sources compiled so far are the caller's then the callee's under root
CompiledUnder(root) ==
    /\ Len(compiled) <= 2
    /\ Len(compiled) >= 1 => compiled[1] = <<root, "caller_name", "caller_src">>
    /\ Len(compiled) = 2 => compiled[2] = <<root, "callee_name", "callee_src">>

\* the two sources were emitted under generated_impls, in their directories
BothGenerated ==
    /\ generated = {<<"generated_impls", "caller_name", "caller_src">>,
                    <<"generated_impls", "callee_name", "callee_src">>}
    /\ created = generated \cup {<<"generated_impls", "caller_name">>,
                                 <<"generated_impls", "callee_name">>}

\* C20 as stated: when every Func uses only the Handwritten convention
\* do_test creates no directory and no source file and compiles the sources
\* under handwritten_impls; otherwise both sources are generated under
\* generated_impls before the first compile.
C20_GeneratesUnlessAllHandwritten ==
    src_dir # "" =>
        IF EveryFuncOnlyHandwritten
        THEN NothingCreated /\ CompiledUnder("handwritten_impls")
        ELSE /\ CompiledUnder("generated_impls")
             /\ compiled # <<>> => BothGenerated

\* C20: do_test creates or overwrites files only for a test that is not
\* handwritten, that is a test none of whose Funcs lists Handwritten, a
\* test without Funcs included: when some Func lists Handwritten (the test
\* passed the check, so every Func lists nothing else) no directory or file
\* is created and the sources compiled are those under handwritten_impls;
\* otherwise both sources are generated under generated_impls before the
\* first compile. Nothing is created or compiled before the check passed.
C20_GeneratesUnlessHandwritten ==
    /\ src_dir = "" => NothingCreated /\ compiled = <<>>
    /\ src_dir # "" =>
          IF IsHandwritten(test)
          THEN /\ EveryFuncOnlyHandwritten
               /\ src_dir = "handwritten_impls"
               /\ NothingCreated
               /\ CompiledUnder("handwritten_impls")
          ELSE /\ src_dir = "generated_impls"
               /\ CompiledUnder("generated_impls")
               /\ compiled # <<>> => BothGenerated

\* both sources of a handwritten test were compiled, nothing was created
C20_Witness ==
    /\ test # <<>>
    /\ IsHandwritten(test)
    /\ Len(compiled) = 2
    /\ NothingCreated
    /\ pc = "build_harness"

\* the pairings of reports that produced a TestReport
ReportedPairings == {k \in 1..Len(reports) : ~IsErrEntry(k)}

\* the pairings of reports that ended in a BuildError
FailedPairings == {k \in 1..Len(reports) : IsErrEntry(k)}

\* the subtest results of the reported pairings that are Ok (ok) or Err (~ok)
SubtestResults(ok) ==
    UNION {{<<k, i>> : i \in {j \in 1..Len(reports[k].result.results) :
                                (reports[k].result.results[j].kind = "Ok") = ok}} :
             k \in ReportedPairings}

\* the subtests (Funcs) of the tests of the reported pairings
ReportedSubtests ==
    UNION {{<<k, i>> : i \in 1..Len(reports[k].result.test)} : k \in ReportedPairings}

\* the summary has been printed
Summarized == main_pc \in {"return", "exited"}

\* C21: in the totals line the passed count is the number of Ok subtest
\* results of the pairings with a TestReport, the failed count the number of
\* their Err subtest results and the completely failed count the number of
\* pairings with a BuildError; passed + failed is the number of subtests of
\* the reported pairings and every pairing is counted in one level only.
C21_TotalsLine ==
    Summarized =>
        /\ passes = Cardinality(SubtestResults(TRUE))
        /\ fails = Cardinality(SubtestResults(FALSE))
        /\ total_fails = Cardinality(FailedPairings)
        /\ passes + fails = Cardinality(ReportedSubtests)
        /\ Cardinality(ReportedPairings) + total_fails = NumPairings
        /\ ReportedPairings \cap FailedPairings = {}

\* the summary counted a pairing whose subtests all passed, one with a failed
\* and a passed subtest, and one that failed completely
C21_Witness ==
    /\ main_pc = "exited"
    /\ total_fails > 0
    /\ \E k \in ReportedPairings :
          /\ Len(reports[k].result.results) > 0
          /\ NumPassed(reports[k].result.results, 1) = Len(reports[k].result.results)
    /\ \E k \in ReportedPairings :
          /\ 0 < NumPassed(reports[k].result.results, 1)
          /\ NumPassed(reports[k].result.results, 1) < Len(reports[k].result.results)

\* the Struct declarations (name and fields) of the Test being built, those
\* behind a Ref included
TestStructDecls ==
    UNION {UNION {StructDecls(f.inputs[i]) : i \in 1..Len(f.inputs)}
              \cup UNION {StructDecls(f.output[i]) : i \in 1..Len(f.output)} :
           f \in {procedural_test.funcs[n] : n \in 1..Len(procedural_test.funcs)}}

\* the number of Funcs a group pushes for one value
StageLen(at) ==
    CASE at = "val" -> 6
      [] at = "val_in" -> 15
      [] at \in {"struct_in", "ref_struct_in"} -> 16
      [] at \in {"val_in_perturbed_small", "struct_in_perturbed_small",
                 "ref_struct_in_perturbed_small"} -> small_count + 1
      [] at \in {"val_in_perturbed_big", "struct_in_perturbed_big",
                 "ref_struct_in_perturbed_big"} -> big_count + 1

\* the number of Funcs pushed for one value before its k-th group
RECURSIVE StageStart(_)
StageStart(k) == IF k = 1 THEN 0 ELSE StageStart(k - 1) + StageLen(StageOrder[k - 1])

FuncsPerVal == StageStart(Len(StageOrder) + 1)

\* the Funcs the k-th group pushed for the j-th value, once it has
PushedBy(j, k) ==
    LET from == (j - 1) * FuncsPerVal + StageStart(k)
        len == StageLen(StageOrder[k])
    IN  IF Len(procedural_test.funcs) >= from + len
        THEN SubSeq(procedural_test.funcs, from + 1, from + len)
        ELSE <<>>

\* the perturbed groups: their place in the order, form and count
PerturbedStages ==
    {[k |-> 5, form |-> "val", count |-> small_count],
     [k |-> 6, form |-> "val", count |-> big_count],
     [k |-> 7, form |-> "struct", count |-> small_count],
     [k |-> 8, form |-> "struct", count |-> big_count],
     [k |-> 9, form |-> "ref_struct", count |-> small_count],
     [k |-> 10, form |-> "ref_struct", count |-> big_count]}

\* the argument list of a Func of one of the three forms
Arguments(func, form) ==
    CASE form = "val" -> func.inputs
      [] form = "struct" -> func.inputs[1].vals
      [] form = "ref_struct" -> func.inputs[1].vals[1].vals

\* the perturbed list for idx has count + 2 arguments, the float as its
\* (count + 1 - idx)-th from 0 and the byte at idx, or one further when the
\* float went in before it
WellPerturbed(args, count, idx) ==
    /\ Len(args) = count + 2
    /\ args[count + 2 - idx] = Float("c_float")
    /\ args[IF idx < count + 1 - idx THEN idx + 1 ELSE idx + 2] = IntOf("c_uint8_t")

\* C22: in the Test the synthesizer builds for an entry of its table, two
\* Struct values of the same name, by value or behind a Ref, have the same
\* fields; no insert of the perturbed lists panics, and every perturbed
\* list, for idx in 0..=count and count 4 or 16, has count + 2 arguments.
C22_SynthesizedTestCoherent ==
    /\ pc.at # "insert_panic"
    /\ \A d, e \in TestStructDecls : d[1] = e[1] => d[2] = e[2]
    /\ \A j \in 1..Len(tests[pc.test_idx].vals), s \in PerturbedStages :
          \A i \in 1..Len(PushedBy(j, s.k)) :
             WellPerturbed(Arguments(PushedBy(j, s.k)[i], s.form), s.count, i - 1)

\* the Test of the entry of two values is complete: it holds a perturbed
\* struct of big_count + 2 fields both by value and behind a Ref
C22_Witness ==
    /\ pc.at = "write"
    /\ Len(tests[pc.test_idx].vals) = 2
    /\ Len(procedural_test.funcs) = 2 * FuncsPerVal
    /\ \E f \in {PushedBy(2, 8)[i] : i \in 1..Len(PushedBy(2, 8))} :
          \E g \in {PushedBy(2, 10)[i] : i \in 1..Len(PushedBy(2, 10))} :
             /\ f.inputs[1].con = "Struct"
             /\ Len(f.inputs[1].vals) = big_count + 2
             /\ g.inputs[1] = Ref(f.inputs[1])

\* a path under tests/ was created or truncated
ManifestWritten == \E path \in created : path[1] = "tests"

\* C23: procedural synthesis is gated off: generate_procedural_tests returns
\* to main at once, no step of main builds a Test, changes which manifests
\* exist, or creates or truncates a file under tests/.
C23_SynthesisGatedOff ==
    [][/\ main_pc = "generate_procedural_tests" => main_pc' = "tests"
       /\ procedural_test' = <<>>
       /\ manifests' = manifests
       /\ ~ManifestWritten']_vars

\* main ran to its end with a manifest missing, and none was written
C23_Witness ==
    /\ main_pc = "exited"
    /\ SomeManifestMissing
    /\ procedural_test = <<>>
    /\ ~ManifestWritten

====
